---- MODULE Spec2Model ----
(***************************************************************************)
(* Model of the question-answer rendezvous of chat-router.py and of the    *)
(* Telegram poller telegram-task-commands.py.                              *)
(*                                                                         *)
(* Spec        the router with its threaded HTTP server: owner replies     *)
(*             (handle_owner_reply) run in concurrent request threads,     *)
(*             one SQL statement per step.                                 *)
(* PollerSpec  the poller, one tick at a time, calling the router over     *)
(*             HTTP (each call is one synchronous request).                *)
(* SeqSpec     the router answering one owner reply at a time.             *)
(* CronSpec    cron_to_oncalendar on typed five-field expressions.         *)
(* JobSpec     schedule_job, list_jobs and delete_job in two request       *)
(*             threads; JobSeqSpec the same, one request at a time.        *)
(* ConvSpec    record_conversation called from a request thread and from   *)
(*             a worker thread.                                            *)
(* RouteSpec   POST /route: do_POST and route_text on typed texts.         *)
(* ThinkSpec   agent_cmd choosing the --thinking tier of a temperature.    *)
(* TaskSpec    /unblock and /retry of the poller's handle_command.         *)
(* AskSpec     POST /ask-owner: ask_owner_question, one statement per      *)
(*             step, and the response do_POST sends.                       *)
(* WorkSpec    POST /route and GET /pending with the worker threads that   *)
(*             POST /route starts; WorkFairSpec the same with every        *)
(*             thread taking the steps it can take.                        *)
(* OwnerSpec   POST /owner-message: send_owner_message.                    *)
(* LinkedSpec  handle_owner_reply with the table of tasks its UPDATE of    *)
(*             autonomous_tasks writes.                                    *)
(***************************************************************************)
EXTENDS Integers, Sequences, FiniteSets

(* ------------------------------ bounds -------------------------------- *)
MaxClock     == 2
MaxAppends   == 4
MaxRequests  == 2
MaxDeletes   == 2
MaxQuestions == 2
MaxTime      == 64
TickStep     == 60
MaxUpdates   == 2
MaxTicks     == 2
PollQuestions == 2
SeqQuestions == 3
SeqReplies   == 3
TempMargin   == 8
MaxCommands  == 2
MaxAsks      == 2
MaxPendings  == 1

(* ------------------------- program constants --------------------------- *)
QUESTION_EXPIRY_MINUTES == 60
LIST_LIMIT == 10

ALLOWED_ASK_AGENTS == {"planner", "coder", "tester"}

NULL == -1

(* 1.0, the largest temperature, in hundredths                             *)
MaxTemp == 100

(* /ask-owner requests the agents send: agent, task_id (0 = none), text.   *)
AskInputs ==
  { [agent |-> "planner", task_id |-> 0, question |-> "which port?"],
    [agent |-> "coder",   task_id |-> 1, question |-> "which host?"],
    [agent |-> "tester",  task_id |-> 0, question |-> "which host?"],
    [agent |-> "reviewer", task_id |-> 0, question |-> "which port?"],
    [agent |-> "coder",   task_id |-> 0, question |-> ""] }

Answers == {"8080", "9090"}
TaskIds == {1}
Threads == {1, 2}

(* ------------------------- the poller's inputs ------------------------- *)
TELEGRAM_CHAT_ID == "100"

(* first tokens is_local_command accepts *)
local_commands ==
  { "/help", "help", "/blockers", "/todo", "/readyfortesting", "/inprogress",
    "/tasks", "/task", "/unblock", "/retry", "/digest", "/pending", "/answer" }

(* first tokens that begin with a slash *)
SlashTokens == (local_commands \ {"help"}) \cup {"/plan"}

(* A message text is the sequence of its whitespace-separated tokens;      *)
(* << >> is a message without text.                                        *)
UpdateInputs ==
  { [sender |-> "100", chat |-> "100", text |-> << "8080" >>,            document |-> FALSE],
    [sender |-> "100", chat |-> "100", text |-> << "/blockers" >>,       document |-> FALSE],
    [sender |-> "100", chat |-> "100", text |-> << "/plan", "deploy" >>, document |-> FALSE],
    [sender |-> "999", chat |-> "100", text |-> << "/answer", "9090" >>, document |-> FALSE],
    [sender |-> "100", chat |-> "999", text |-> << >>,                   document |-> TRUE] }

AllowLists == { {}, {"100"} }
InitialOffsets == {0, 2}

VARIABLES
  now,            \* wall clock of the DB server, in minutes
  questions,      \* table pending_questions; the row id is the index
  solution,       \* autonomous_tasks.solution per task: appended blocks
  notified,       \* question ids announced to the owner by the notify script
  pc,             \* per request thread: position in handle_owner_reply
  answer_text,    \* per request thread: the reply being handled
  question,       \* per request thread: the row get_oldest_pending_question returned
  followups,      \* follow-up workers started by _dispatch
  confirmations,  \* 'Answer recorded for question #id' results returned
  nreplies,       \* number of reply requests accepted so far
  lastList,       \* what the last list operation saw and reported
  last_reply,     \* what the last handle_owner_reply request returned
  TELEGRAM_ALLOW_FROM,  \* the configured allowlist of sender ids
  offset_file,    \* the integer persisted in OFFSET_FILE
  initial_offset, \* its value before the first tick
  inbox,          \* the updates Telegram holds; update_id is the index
  ppc,            \* the poller's position inside a tick
  batch,          \* the updates getUpdates returned to this tick
  idx,            \* the loop's position in batch
  has_pending,    \* what has_pending_questions() returned for this update
  deliveries,     \* downstream deliveries of updates, in the order made
  sent,           \* reactions, messages and downloads per update
  processed,      \* updates whose loop iteration ran to its end
  raised,         \* updates whose handler raised
  nticks,         \* number of ticks started
  cron_fields,    \* the fields a cron expression was typed from
  cron_expr,      \* the expression handed to cron_to_oncalendar
  cron_out,       \* what cron_to_oncalendar returned for it
  clock,          \* datetime.now() of the router host, in clock ticks
  timer_dir,      \* the files of SCHEDULED_JOBS_DIR: [unit, ext]
  metas,          \* the content of each .meta.json file, by file base name
  enabled,        \* the timer units systemd has enabled
  sched,          \* per request thread: position and locals of schedule_job
  writes,         \* who wrote which file: [by, file]
  job_list,       \* what the last list_jobs() reported
  last_delete,    \* the last delete_job call: its number, argument, reply
  conv_file,      \* the list persisted in CONVERSATION_FILE
  conv,           \* per thread: position in record_conversation, buf, entry
  conv_calls,     \* record_conversation calls started so far
  conv_left,      \* calls the model still admits
  appended,       \* every entry appended, in the order the saves were made
  overlapped,     \* whether two record_conversation calls ever overlapped
  http,           \* POST /route: requests so far, whether google-services.py
                  \* is there, and of the last request the body, the status
                  \* sent (0: none) and the outcome of route_text
  temps,          \* two agent temperatures, in hundredths
  tiers,          \* what thinking_from_temp returned for each
  tasks,          \* table autonomous_tasks, by task id
  blocked_reasons,\* table blocked_reasons: its rows [task_id, reason]
  last_command,   \* the last /unblock or /retry: its text, the table before,
                  \* what handle_command returned
  ask,            \* one /ask-owner request: position, locals, what it did
  pool,           \* the worker threads started, in the order started
  owner_msgs,     \* the runs of the notify script for owner messages
  owner_reply,    \* POST /owner-message: requests so far, the last one's
                  \* fields and what send_owner_message returned
  pending_log,    \* what GET /pending answered, request by request
  vmem,           \* vector memory: whether it can be reached, rows stored
  serving         \* whether serve_forever is still running

rvars == << now, questions, solution, notified, followups, confirmations,
            nreplies, lastList, last_reply >>
tvars == << pc, answer_text, question >>
pvars == << TELEGRAM_ALLOW_FROM, offset_file, initial_offset, inbox, ppc,
            batch, idx, has_pending, deliveries, sent, processed, raised,
            nticks >>

cronvars == << cron_fields, cron_expr, cron_out >>

(* the state of the subsystems the questions and the poller do not touch  *)
jvars == << clock, timer_dir, metas, enabled, sched, writes, job_list,
            last_delete >>

cvars == << conv_file, conv, conv_calls, conv_left, appended, overlapped >>

kvars == << temps, tiers >>
uvars == << tasks, blocked_reasons, last_command >>
wvars == << pool, owner_msgs, owner_reply, pending_log, vmem, serving >>
yvars == << kvars, uvars, ask, wvars >>

xvars == << cronvars, jvars, cvars, http, yvars >>

notcron == << rvars, tvars, pvars, jvars, cvars, http, yvars >>
notjobs == << rvars, tvars, pvars, cronvars, cvars, http, yvars >>
notconv == << rvars, tvars, pvars, cronvars, jvars, http, yvars >>

(* everything but the variables above from temps on                        *)
oldvars == << rvars, tvars, pvars, cronvars, jvars, cvars, http >>

vars == << rvars, tvars, pvars, xvars >>

(* --------------------------- the questions table ----------------------- *)
Ids(qs) == 1..Len(qs)

PendingIds(qs) == { i \in Ids(qs) : qs[i].status = "pending" }

(* an expiry after twice the interval *)
StaleAfterTwice(q, t) == q.created_at < t - 2 * QUESTION_EXPIRY_MINUTES

Stale(q, t) == q.created_at < t - QUESTION_EXPIRY_MINUTES

(* created more than 60 minutes before t *)
OlderThanTTL(q, t) == t - q.created_at > 60

expire_any_status(qs, t) ==
  [ i \in Ids(qs) |->
      IF Stale(qs[i], t) THEN [ qs[i] EXCEPT !.status = "expired" ] ELSE qs[i] ]

(* UPDATE ... SET status='expired' WHERE status='pending' AND created_at < NOW()-60min *)
expire_old_questions(qs, t) ==
  [ i \in Ids(qs) |->
      IF qs[i].status = "pending" /\ Stale(qs[i], t)
      THEN [ qs[i] EXCEPT !.status = "expired" ]
      ELSE qs[i] ]

(* the same SELECT ordered by created_at DESC *)
get_newest_pending_question(qs) ==
  { i \in PendingIds(qs) :
      \A j \in PendingIds(qs) : qs[i].created_at >= qs[j].created_at }

(* the same SELECT without WHERE status='pending' *)
get_oldest_question(qs) ==
  { i \in Ids(qs) : \A j \in Ids(qs) : qs[i].created_at <= qs[j].created_at }

(* SELECT ... WHERE status='pending' ORDER BY created_at ASC LIMIT 1: the   *)
(* candidates are the pending rows of least created_at.                    *)
get_oldest_pending_question(qs) ==
  { i \in PendingIds(qs) :
      \A j \in PendingIds(qs) : qs[i].created_at <= qs[j].created_at }

(* the same UPDATE with WHERE id = question_id alone *)
answer_question_by_id(qs, id, a, t) ==
  [ i \in Ids(qs) |->
      IF i = id
      THEN [ qs[i] EXCEPT !.answer = a, !.status = "answered", !.answered_at = t ]
      ELSE qs[i] ]

(* UPDATE ... SET answer, status='answered', answered_at WHERE id AND status='pending' *)
answer_pending_question(qs, id, a, t) ==
  [ i \in Ids(qs) |->
      IF i = id /\ qs[i].status = "pending"
      THEN [ qs[i] EXCEPT !.answer = a, !.status = "answered", !.answered_at = t ]
      ELSE qs[i] ]

(* INSERT INTO pending_questions (agent, task_id, question): status and    *)
(* created_at take the column defaults.                                    *)
create_pending_question(qs, agent, task_id, q, t) ==
  Append(qs, [ agent |-> agent, task_id |-> task_id, question |-> q,
               created_at |-> t, status |-> "pending",
               answer |-> "", answered_at |-> NULL ])

(* ids of the pending rows in created_at order, at most LIST_LIMIT of them *)
RECURSIVE SortedPending(_, _)
SortedPending(qs, S) ==
  IF S = {} THEN << >>
  ELSE LET m == CHOOSE i \in S :
                  \A j \in S : qs[i].created_at < qs[j].created_at
                               \/ (qs[i].created_at = qs[j].created_at /\ i <= j)
       IN << m >> \o SortedPending(qs, S \ {m})

Take(s, n) == IF Len(s) <= n THEN s ELSE SubSeq(s, 1, n)

list_pending_questions_structured(qs) ==
  Take(SortedPending(qs, PendingIds(qs)), LIST_LIMIT)

(* the worker _dispatch starts for a question asked by agent               *)
Dispatch(agent) ==
  IF agent = "planner"
  THEN [ pipeline |-> "plan",  agent |-> "planner" ]
  ELSE [ pipeline |-> "adhoc", agent |-> "coder" ]

NoQuestion == [ id |-> 0, agent |-> "", task_id |-> 0, question |-> "" ]

RouterInit ==
  /\ now = 0
  /\ questions = << >>
  /\ solution = [ k \in TaskIds |-> << >> ]
  /\ notified = {}
  /\ followups = {}
  /\ confirmations = {}
  /\ nreplies = 0
  /\ lastList = [ ids |-> << >>, stale |-> {} ]
  /\ last_reply = [ kind |-> "", qid |-> 0 ]
  /\ pc = [ t \in Threads |-> "idle" ]
  /\ answer_text = [ t \in Threads |-> "" ]
  /\ question = [ t \in Threads |-> NoQuestion ]

PollerIdle ==
  /\ inbox = << >>
  /\ ppc = "idle"
  /\ batch = << >>
  /\ idx = 0
  /\ has_pending = FALSE
  /\ deliveries = << >>
  /\ sent = {}
  /\ processed = {}
  /\ raised = {}
  /\ nticks = 0

(* nothing converted yet                                                    *)
NotRun == << "<not run>" >>

CronIdle ==
  /\ cron_fields = << >>
  /\ cron_expr = << >>
  /\ cron_out = NotRun

JobThreads == {1, 2}

NoJob ==
  [ pc |-> "idle", text |-> << >>, cron_expr |-> << >>,
    task_description |-> << >>, on_calendar |-> << >>, job_id |-> << >>,
    reply |-> "" ]

JobsIdle ==
  /\ clock = 0
  /\ timer_dir = {}
  /\ metas = << >>
  /\ enabled = {}
  /\ sched = [ t \in JobThreads |-> NoJob ]
  /\ writes = {}
  /\ job_list = {}
  /\ last_delete = [ n |-> 0, arg |-> << >>, reply |-> "" ]

(* record_conversation runs in the request thread of a /route fallthrough *)
(* and in the worker thread that calls send_owner_message                  *)
ConvThreads == { "route", "worker" }

NoEntry == [ role |-> "", text |-> [ word |-> << >>, len |-> 0 ], time |-> 0 ]

ConvThreadsIdle ==
  /\ conv = [ t \in ConvThreads |->
               [ pc |-> "idle", buf |-> << >>, entry |-> NoEntry ] ]
  /\ conv_left = MaxAppends
  /\ overlapped = FALSE

ConvIdle ==
  /\ conv_file = << >>
  /\ conv_calls = 0
  /\ appended = << >>
  /\ ConvThreadsIdle

Reply(head, tail, foot) == [ head |-> head, tail |-> tail, foot |-> foot ]

NoResult ==
  [ handler |-> "", arg |-> << >>, reply |-> Reply("", << >>, ""), workers |-> << >>,
    record |-> << >>, raises |-> FALSE ]

NoRequest ==
  [ n |-> 0, body |-> [ json |-> FALSE, shape |-> "", text_type |-> "", text |-> << >> ],
    gs |-> "", status |-> 0, result |-> NoResult ]

HttpIdle == http = NoRequest

ThinkIdle == temps = << 0, 0 >> /\ tiers = << "", "" >>

TasksIdle ==
  /\ tasks = << >>
  /\ blocked_reasons = {}
  /\ last_command = [ n |-> 0 ]

AskIdle == ask = [ pc |-> "idle" ]

WorkIdle ==
  /\ pool = << >>
  /\ owner_msgs = << >>
  /\ owner_reply = [ n |-> 0 ]
  /\ pending_log = << >>
  /\ vmem = [ up |-> TRUE, rows |-> << >> ]
  /\ serving = TRUE

RestIdle == ThinkIdle /\ TasksIdle /\ AskIdle /\ WorkIdle

OthersIdle ==
  /\ CronIdle
  /\ JobsIdle
  /\ ConvIdle
  /\ HttpIdle
  /\ RestIdle

Init ==
  /\ RouterInit
  /\ PollerIdle
  /\ OthersIdle
  /\ TELEGRAM_ALLOW_FROM = {}
  /\ offset_file = 0
  /\ initial_offset = 0

PollerInit ==
  /\ RouterInit
  /\ PollerIdle
  /\ OthersIdle
  /\ TELEGRAM_ALLOW_FROM \in AllowLists
  /\ offset_file \in InitialOffsets
  /\ initial_offset = offset_file

(* ------------------------------ the clock ------------------------------ *)
Tick ==
  /\ now + TickStep <= MaxTime
  /\ now' = now + TickStep
  /\ UNCHANGED << questions, solution, notified, followups, confirmations,
                  nreplies, lastList, last_reply, tvars, pvars, xvars >>

(* --------------------------- POST /ask-owner --------------------------- *)
(* ask_owner_question: validation, expire, insert, notify.  The insert     *)
(* takes time: a later statement sees a later clock.                       *)
ask_owner_question(req) ==
  /\ now < MaxTime
  /\ IF req.agent \notin ALLOWED_ASK_AGENTS \/ req.question = ""
     THEN UNCHANGED << questions, notified, now >>
     ELSE /\ questions' = create_pending_question(
                            expire_old_questions(questions, now),
                            req.agent, req.task_id, req.question, now)
          /\ notified' = notified \cup { Len(questions) + 1 }
          /\ now' = now + 1
  /\ UNCHANGED << solution, followups, confirmations, nreplies, lastList,
                  last_reply, tvars, pvars, xvars >>

AskOwner(req) ==
  /\ Len(questions) < MaxQuestions
  /\ ask_owner_question(req)

(* ------------------- GET /pending and the /pending command ------------- *)
(* the SELECT of the pending rows without expire_old_questions() first     *)
GetPendingUnexpired ==
  /\ UNCHANGED questions
  /\ lastList' = [ ids |-> list_pending_questions_structured(questions),
                   stale |-> { i \in 1..Len(questions) :
                                 /\ questions[i].status = "pending"
                                 /\ OlderThanTTL(questions[i], now) } ]

(* expire_old_questions(), then the SELECT of the pending rows             *)
GetPending ==
  LET qs == expire_old_questions(questions, now)
  IN /\ questions' = qs
     /\ lastList' = [ ids |-> list_pending_questions_structured(qs),
                      stale |-> { i \in 1..Len(questions) :
                                    /\ questions[i].status = "pending"
                                    /\ OlderThanTTL(questions[i], now) } ]

ListPending ==
  /\ GetPending
  /\ UNCHANGED << now, solution, notified, followups, confirmations,
                  nreplies, last_reply, tvars, pvars, xvars >>

(* ---------------- handle_owner_reply in a request thread --------------- *)
(* the solution block appended to the task the question is linked to       *)
AppendSolution(sol, q, a) ==
  IF q.task_id # 0 /\ q.task_id \in TaskIds
  THEN [ sol EXCEPT ![q.task_id] =
           Append(@, [ qid |-> q.id, q |-> q.question, a |-> a ]) ]
  ELSE sol

(* a follow-up prompt that leaves the answer out *)
FollowUpWithoutAnswer(by, q, a) ==
  [ by |-> by, qid |-> q.id, worker |-> Dispatch(q.agent),
    question |-> q.question, answer |-> "" ]

(* the follow-up _dispatch starts: the worker and what its prompt embeds   *)
FollowUp(by, q, a) ==
  [ by |-> by, qid |-> q.id, worker |-> Dispatch(q.agent),
    question |-> q.question, answer |-> a ]

Row(qs, i) ==
  [ id |-> i, agent |-> qs[i].agent, task_id |-> qs[i].task_id,
    question |-> qs[i].question ]

(* a request arrives and expire_old_questions() runs; the server starts a  *)
(* thread per request, numbered here in order of arrival                   *)
ReplyExpire(t, a) ==
  /\ pc[t] = "idle"
  /\ \A u \in Threads : u < t => pc[u] # "idle"
  /\ answer_text' = [ answer_text EXCEPT ![t] = a ]
  /\ questions' = expire_old_questions(questions, now)
  /\ pc' = [ pc EXCEPT ![t] = "select" ]
  /\ UNCHANGED << now, solution, notified, question, followups,
                  confirmations, nreplies, lastList, last_reply, pvars, xvars >>

(* question = get_oldest_pending_question(); if not question: return       *)
ReplySelect(t) ==
  /\ pc[t] = "select"
  /\ IF PendingIds(questions) = {}
     THEN /\ pc' = [ pc EXCEPT ![t] = "done" ]
          /\ answer_text' = [ answer_text EXCEPT ![t] = "" ]
          /\ question' = [ question EXCEPT ![t] = NoQuestion ]
     ELSE \E i \in get_oldest_pending_question(questions) :
            /\ question' = [ question EXCEPT ![t] = Row(questions, i) ]
            /\ pc' = [ pc EXCEPT ![t] = "answer" ]
            /\ UNCHANGED answer_text
  /\ UNCHANGED << rvars, pvars, xvars >>

(* answer_pending_question(qid, answer_text): run_psql drops the outcome   *)
(* of psql (a non-zero return code gives ""), the result of run_psql is    *)
(* not looked at and the function returns True either way                  *)
ReplyAnswer(t) ==
  /\ pc[t] = "answer"
  /\ \E db \in { "ok", "fails" } :
       questions' = IF db = "ok"
                    THEN answer_pending_question(questions, question[t].id,
                                                 answer_text[t], now)
                    ELSE questions
  /\ pc' = [ pc EXCEPT ![t] = "finish" ]
  /\ UNCHANGED << now, solution, notified, answer_text, question,
                  followups, confirmations, nreplies, lastList, last_reply,
                  pvars, xvars >>

(* the solution block of the linked task, the _dispatch thread, the return *)
ReplyFinish(t) ==
  /\ pc[t] = "finish"
  /\ solution' = AppendSolution(solution, question[t], answer_text[t])
  /\ followups' = followups \cup { FollowUp(t, question[t], answer_text[t]) }
  /\ confirmations' = confirmations \cup
       { [ by |-> t, qid |-> question[t].id, answer |-> answer_text[t] ] }
  /\ pc' = [ pc EXCEPT ![t] = "done" ]
  /\ answer_text' = [ answer_text EXCEPT ![t] = "" ]
  /\ question' = [ question EXCEPT ![t] = NoQuestion ]
  /\ UNCHANGED << now, questions, notified, nreplies, lastList, last_reply,
                  pvars, xvars >>

Next ==
  \/ Tick
  \/ \E req \in AskInputs : AskOwner(req)
  \/ ListPending
  \/ \E t \in Threads, a \in Answers : ReplyExpire(t, a)
  \/ \E t \in Threads : ReplySelect(t)
  \/ \E t \in Threads : ReplyAnswer(t)
  \/ \E t \in Threads : ReplyFinish(t)

Spec == Init /\ [][Next]_vars

(* ------------- handle_owner_reply as one request (POST /reply) --------- *)
NoPending == [ kind |-> "no_pending", qid |-> 0 ]
Recorded(i) == [ kind |-> "recorded", qid |-> i ]

(* last_reply is the string handle_owner_reply returns to the request;     *)
(* thread 0 stands for a request served with no other in flight            *)
handle_owner_reply(a) ==
  LET qs   == expire_old_questions(questions, now)
      cand == get_oldest_pending_question(qs)
  IN /\ nreplies' = nreplies + 1
     /\ IF cand = {}
        THEN /\ last_reply' = NoPending
             /\ questions' = qs
             /\ UNCHANGED << solution, followups, confirmations >>
        ELSE \E i \in cand :
               /\ last_reply' = Recorded(i)
               /\ questions' = answer_pending_question(qs, i, a, now)
               /\ solution' = AppendSolution(solution, Row(qs, i), a)
               /\ followups' = followups \cup { FollowUp(0, Row(qs, i), a) }
               /\ confirmations' = confirmations \cup
                    { [ by |-> 0, qid |-> i, answer |-> a ] }

(* -------- the router answering one request at a time (no overlap) ------ *)
SeqAsk(req) ==
  /\ Len(questions) < SeqQuestions
  /\ ask_owner_question(req)

(* POST /reply, or /answer <text> through POST /route                      *)
OwnerReply(a) ==
  /\ nreplies < SeqReplies
  /\ handle_owner_reply(a)
  /\ UNCHANGED << now, notified, lastList, tvars, pvars, xvars >>

SeqNext ==
  \/ Tick
  \/ \E req \in AskInputs : SeqAsk(req)
  \/ ListPending
  \/ \E a \in Answers : OwnerReply(a)

SeqSpec == Init /\ [][SeqNext]_vars

(* ------------------------------ the poller ----------------------------- *)
PollerAsk(req) ==
  /\ Len(questions) < PollQuestions
  /\ ask_owner_question(req)

(* the owner or a stranger sends a message to the bot                      *)
Receive(u) ==
  /\ Len(inbox) < MaxUpdates
  /\ inbox' = Append(inbox, [ update_id |-> Len(inbox) + 1, sender |-> u.sender,
                              chat |-> u.chat, text |-> u.text,
                              document |-> u.document ])
  /\ UNCHANGED << rvars, tvars, xvars, TELEGRAM_ALLOW_FROM, offset_file,
                  initial_offset, ppc, batch, idx, has_pending, deliveries,
                  sent, processed, raised, nticks >>

(* Telegram returns the updates from offset on, in update_id order         *)
getUpdates(offset) == SelectSeq(inbox, LAMBDA u : u.update_id >= offset)

is_local_command(text) == text # << >> /\ text[1] \in local_commands

StartsWithSlash(text) == text # << >> /\ text[1] \in SlashTokens

(* the chat test alone, whatever the allowlist *)
AuthorizedByChat(u) == u.chat = TELEGRAM_CHAT_ID

Authorized(u) ==
  IF TELEGRAM_ALLOW_FROM # {}
  THEN u.sender \in TELEGRAM_ALLOW_FROM
  ELSE u.chat = TELEGRAM_CHAT_ID

cur == batch[idx]

Reaction(u) == [ id |-> u.update_id, what |-> "reaction", body |-> NoPending ]
Message(u, body) == [ id |-> u.update_id, what |-> "message", body |-> body ]
Download(u) == [ id |-> u.update_id, what |-> "download", body |-> NoPending ]

Usage == [ kind |-> "usage", qid |-> 0 ]
LocalReply == [ kind |-> "local", qid |-> 0 ]
RouteReply == [ kind |-> "routed", qid |-> 0 ]
Saved == [ kind |-> "saved", qid |-> 0 ]

(* the for loop moves to the next update, or main returns                  *)
NextUpdate ==
  /\ has_pending' = FALSE
  /\ IF idx < Len(batch)
     THEN /\ idx' = idx + 1
          /\ ppc' = "loop"
          /\ UNCHANGED batch
     ELSE /\ idx' = 0
          /\ ppc' = "idle"
          /\ batch' = << >>

(* main leaves the loop without finishing the iteration                    *)
EndTick ==
  /\ ppc' = "idle"
  /\ idx' = 0
  /\ batch' = << >>
  /\ has_pending' = FALSE

(* offset = load_offset(); getUpdates                                      *)
PollStart ==
  /\ ppc = "idle"
  /\ nticks < MaxTicks
  /\ nticks' = nticks + 1
  /\ LET updates == getUpdates(offset_file)
     IN IF updates = << >>
        THEN UNCHANGED << ppc, batch, idx >>
        ELSE /\ batch' = updates
             /\ idx' = 1
             /\ ppc' = "loop"
  /\ UNCHANGED << rvars, tvars, xvars, TELEGRAM_ALLOW_FROM, offset_file,
                  initial_offset, inbox, has_pending, deliveries, sent,
                  processed, raised >>

(* sender not on the allowlist, or no allowlist and a foreign chat         *)
PollSkip ==
  /\ ppc = "loop"
  /\ ~ Authorized(cur)
  /\ offset_file' = cur.update_id + 1
  /\ processed' = processed \cup { cur.update_id }
  /\ NextUpdate
  /\ UNCHANGED << rvars, tvars, xvars, TELEGRAM_ALLOW_FROM, initial_offset, inbox,
                  deliveries, sent, raised, nticks >>

(* a local command other than /answer: handle_command returns its reply    *)
PollLocal ==
  /\ ppc = "loop"
  /\ Authorized(cur)
  /\ is_local_command(cur.text)
  /\ cur.text[1] # "/answer"
  /\ deliveries' = Append(deliveries, [ id |-> cur.update_id, dest |-> "inline" ])
  /\ sent' = sent \cup { Reaction(cur), Message(cur, LocalReply) }
  /\ ppc' = "handled"
  /\ UNCHANGED << rvars, tvars, xvars, TELEGRAM_ALLOW_FROM, offset_file,
                  initial_offset, inbox, batch, idx, has_pending, processed,
                  raised, nticks >>

(* commands whose handler unpacks the lines of a multi-row query           *)
RowCommands == { "/blockers", "/todo", "/readyfortesting", "/inprogress", "/digest" }

(* handle_command raises on a row it cannot unpack before it has a reply:  *)
(* nothing in main catches it, the process ends                            *)
PollLocalRaise ==
  /\ ppc = "loop"
  /\ Authorized(cur)
  /\ is_local_command(cur.text)
  /\ cur.text[1] \in RowCommands
  /\ raised' = raised \cup { cur.update_id }
  /\ EndTick
  /\ UNCHANGED << rvars, tvars, xvars, TELEGRAM_ALLOW_FROM, offset_file,
                  initial_offset, inbox, deliveries, sent, processed, nticks >>

(* /answer <text>: route_reply_to_agent posts the text to /reply           *)
PollAnswer ==
  /\ ppc = "loop"
  /\ Authorized(cur)
  /\ is_local_command(cur.text)
  /\ cur.text[1] = "/answer"
  /\ IF Len(cur.text) < 2
     THEN /\ sent' = sent \cup { Reaction(cur), Message(cur, Usage) }
          /\ deliveries' = Append(deliveries,
                                  [ id |-> cur.update_id, dest |-> "inline" ])
          /\ UNCHANGED rvars
     ELSE /\ handle_owner_reply(cur.text[2])
          /\ sent' = sent \cup { Reaction(cur), Message(cur, last_reply') }
          /\ deliveries' = Append(deliveries,
                                  [ id |-> cur.update_id, dest |-> "reply" ])
          /\ UNCHANGED << now, notified, lastList >>
  /\ ppc' = "handled"
  /\ UNCHANGED << tvars, xvars, TELEGRAM_ALLOW_FROM, offset_file, initial_offset,
                  inbox, batch, idx, has_pending, processed, raised, nticks >>

(* plain text: has_pending_questions() asks GET /pending                   *)
PollCheckPending ==
  /\ ppc = "loop"
  /\ Authorized(cur)
  /\ cur.text # << >>
  /\ ~ is_local_command(cur.text)
  /\ ~ StartsWithSlash(cur.text)
  /\ GetPending
  /\ has_pending' = (Len(lastList'.ids) > 0)
  /\ ppc' = "checked"
  /\ UNCHANGED << now, solution, notified, followups, confirmations, nreplies,
                  last_reply, tvars, xvars, TELEGRAM_ALLOW_FROM, offset_file, initial_offset,
                  inbox, batch, idx, deliveries, sent, processed, raised,
                  nticks >>

(* plain text while questions are pending: route_reply_to_agent(stripped)  *)
PollAutoAnswer ==
  /\ ppc = "checked"
  /\ has_pending
  /\ handle_owner_reply(cur.text[1])
  /\ sent' = sent \cup { Reaction(cur), Message(cur, last_reply') }
  /\ deliveries' = Append(deliveries, [ id |-> cur.update_id, dest |-> "reply" ])
  /\ ppc' = "handled"
  /\ UNCHANGED << now, notified, lastList, tvars, xvars, TELEGRAM_ALLOW_FROM,
                  offset_file, initial_offset, inbox, batch, idx, has_pending,
                  processed, raised, nticks >>

(* everything else that has text goes to /route                            *)
PollRoute ==
  /\ \/ /\ ppc = "loop"
        /\ Authorized(cur)
        /\ cur.text # << >>
        /\ ~ is_local_command(cur.text)
        /\ StartsWithSlash(cur.text)
     \/ /\ ppc = "checked"
        /\ ~ has_pending
  /\ deliveries' = Append(deliveries, [ id |-> cur.update_id, dest |-> "route" ])
  /\ sent' = sent \cup { Reaction(cur), Message(cur, RouteReply) }
  /\ ppc' = "handled"
  /\ UNCHANGED << rvars, tvars, xvars, TELEGRAM_ALLOW_FROM, offset_file,
                  initial_offset, inbox, batch, idx, has_pending, processed,
                  raised, nticks >>

(* a document: download_telegram_file and a message about it               *)
PollFile ==
  /\ ppc = "loop"
  /\ Authorized(cur)
  /\ cur.text = << >>
  /\ cur.document
  /\ sent' = sent \cup { Download(cur), Message(cur, Saved) }
  /\ ppc' = "handled"
  /\ UNCHANGED << rvars, tvars, xvars, TELEGRAM_ALLOW_FROM, offset_file,
                  initial_offset, inbox, batch, idx, has_pending, deliveries,
                  processed, raised, nticks >>

(* the same step saving update_id itself *)
PollSaveSameId ==
  /\ ppc = "handled"
  /\ offset_file' = cur.update_id
  /\ processed' = processed \cup { cur.update_id }
  /\ NextUpdate
  /\ UNCHANGED << rvars, tvars, xvars, TELEGRAM_ALLOW_FROM, initial_offset, inbox,
                  deliveries, sent, raised, nticks >>

(* offset = update_id + 1; save_offset(offset)                             *)
PollSave ==
  /\ ppc = "handled"
  /\ offset_file' = cur.update_id + 1
  /\ processed' = processed \cup { cur.update_id }
  /\ NextUpdate
  /\ UNCHANGED << rvars, tvars, xvars, TELEGRAM_ALLOW_FROM, initial_offset, inbox,
                  deliveries, sent, raised, nticks >>

(* the tick's process stops where it is (killed, or save_offset fails)     *)
PollStop ==
  /\ ppc \in { "loop", "checked", "handled" }
  /\ EndTick
  /\ UNCHANGED << rvars, tvars, xvars, TELEGRAM_ALLOW_FROM, offset_file,
                  initial_offset, inbox, deliveries, sent, processed, raised,
                  nticks >>

PollerNext ==
  \/ Tick
  \/ \E req \in AskInputs : PollerAsk(req)
  \/ \E u \in UpdateInputs : Receive(u)
  \/ PollStart
  \/ PollSkip
  \/ PollLocal
  \/ PollLocalRaise
  \/ PollAnswer
  \/ PollCheckPending
  \/ PollAutoAnswer
  \/ PollRoute
  \/ PollFile
  \/ PollSave
  \/ PollStop

PollerSpec == PollerInit /\ [][PollerNext]_vars

(* ============================ text values ============================== *)
(* A Python str is modelled as the sequence of its characters.             *)
WS == { " ", "\t", "\n" }

Digits == { "0", "1", "2", "3", "4", "5", "6", "7", "8", "9" }

RECURSIVE lstrip(_)
lstrip(s) == IF s # << >> /\ Head(s) \in WS THEN lstrip(Tail(s)) ELSE s

RECURSIVE rstrip(_)
rstrip(s) ==
  IF s # << >> /\ s[Len(s)] \in WS THEN rstrip(SubSeq(s, 1, Len(s) - 1)) ELSE s

(* str.strip() as a bug would have it: the right end left alone            *)
strip_left(s) == lstrip(s)

(* str.strip()                                                             *)
strip(s) == rstrip(lstrip(s))

RECURSIVE SplitWs(_, _, _)
SplitWs(s, run, acc) ==
  IF s = << >>
  THEN IF run = << >> THEN acc ELSE Append(acc, run)
  ELSE IF Head(s) \in WS
       THEN SplitWs(Tail(s), << >>, IF run = << >> THEN acc ELSE Append(acc, run))
       ELSE SplitWs(Tail(s), Append(run, Head(s)), acc)

(* str.split(): the maximal runs of non-whitespace characters              *)
split(s) == SplitWs(s, << >>, << >>)

RECURSIVE join(_, _)
(* sep.join(parts)                                                         *)
join(sep, parts) ==
  IF parts = << >> THEN << >>
  ELSE IF Len(parts) = 1 THEN parts[1]
  ELSE parts[1] \o sep \o join(sep, Tail(parts))

startswith(s, p) == Len(s) >= Len(p) /\ SubSeq(s, 1, Len(p)) = p

(* sub in s                                                                *)
contains(s, sub) ==
  \E i \in 0..(Len(s) - Len(sub)) : SubSeq(s, i + 1, i + Len(sub)) = sub

(* ========================= the job compiler ============================ *)
(* the value None                                                          *)
None == << "<None>" >>

(* cron_field_re = ^[\d\*,/\-]+$                                           *)
cron_field_re(field) ==
  /\ field # << >>
  /\ \A i \in 1..Len(field) : field[i] \in Digits \cup { "*", ",", "/", "-" }

(* a step field as a bug would leave it: the base is not replaced          *)
convert_field_keep_base(field) == field

(* convert_field(field, wildcard="*")                                      *)
convert_field(field) ==
  IF field = << "*" >> THEN << "*" >>
  ELSE IF \E i \in 1..Len(field) : field[i] = "/"
       THEN LET k    == CHOOSE i \in 1..Len(field) :
                          /\ field[i] = "/"
                          /\ \A j \in 1..(i - 1) : field[j] # "/"
                base == SubSeq(field, 1, k - 1)
                step == SubSeq(field, k + 1, Len(field))
            IN (IF base = << "*" >> THEN << "0" >> ELSE base) \o << "/" >> \o step
       ELSE field

cron_to_oncalendar(expr) ==
  LET parts == split(strip(expr))
  IN IF Len(parts) # 5 THEN None
     ELSE IF \E i \in 1..5 : ~ cron_field_re(parts[i]) THEN None
     ELSE LET minute == parts[1]
              hour   == parts[2]
              dom    == parts[3]
              month  == parts[4]
              dow    == parts[5]
              cal_dow   == IF dow = << "*" >> THEN << "*" >> ELSE dow
              date_part == << "*", "-" >> \o convert_field(month) \o << "-" >>
                             \o convert_field(dom)
              time_part == convert_field(hour) \o << ":" >>
                             \o convert_field(minute) \o << ":", "0", "0" >>
          IN IF cal_dow # << "*" >>
             THEN cal_dow \o << " " >> \o date_part \o << " " >> \o time_part
             ELSE date_part \o << " " >> \o time_part

(* --------------- cron_to_oncalendar on typed expressions --------------- *)
CronFields ==
  { << "*" >>, << "*", "/", "5" >>, << "7" >>, << "2", "5" >>, << "1", "-", "5" >>, << "8", ",", "1", "7" >>, << "7", "a", "m" >> }

ShortFields == { << "*" >>, << "7" >> }

CronFieldLists ==
  [ 1..5 -> CronFields ] \cup [ 1..4 -> ShortFields ] \cup [ 1..6 -> ShortFields ]

(* the ways the owner may space the fields                                 *)
Typed(fields) ==
  { join(<< " " >>, fields),
    << " " >> \o join(<< " ", " " >>, fields) \o << " ", "\n" >> }

CronInit ==
  /\ RouterInit
  /\ PollerIdle
  /\ TELEGRAM_ALLOW_FROM = {}
  /\ offset_file = 0
  /\ initial_offset = 0
  /\ JobsIdle
  /\ RestIdle
  /\ ConvIdle
  /\ HttpIdle
  /\ cron_fields \in CronFieldLists
  /\ cron_expr \in Typed(cron_fields)
  /\ cron_out = NotRun

Convert ==
  /\ cron_out = NotRun
  /\ cron_out' = cron_to_oncalendar(cron_expr)
  /\ UNCHANGED << cron_fields, cron_expr, notcron >>

CronNext == Convert

CronSpec == CronInit /\ [][CronNext]_vars

(* ------------------------------ job ids -------------------------------- *)
SCHEDULED_JOBS_PREFIX == << "a", "s", "h", "l", "e", "y", "-", "j", "o", "b", "-" >>

UPPER ==
  << "A", "B", "C", "D", "E", "F", "G", "H", "I", "J", "K", "L", "M",
     "N", "O", "P", "Q", "R", "S", "T", "U", "V", "W", "X", "Y", "Z" >>

LOWER ==
  << "a", "b", "c", "d", "e", "f", "g", "h", "i", "j", "k", "l", "m",
     "n", "o", "p", "q", "r", "s", "t", "u", "v", "w", "x", "y", "z" >>

lower_char(c) ==
  IF \E i \in 1..Len(UPPER) : UPPER[i] = c
  THEN LOWER[CHOOSE i \in 1..Len(UPPER) : UPPER[i] = c]
  ELSE c

(* str.lower()                                                             *)
lower(s) == [ i \in 1..Len(s) |-> lower_char(s[i]) ]

(* the class [a-z0-9]                                                      *)
SlugChars == { LOWER[i] : i \in 1..Len(LOWER) } \cup Digits

RECURSIVE re_sub_hyphen(_)
(* re.sub(r'[^a-z0-9]+', '-', s): each run of other characters, one hyphen *)
re_sub_hyphen(s) ==
  IF s = << >> THEN << >>
  ELSE IF Head(s) \in SlugChars
       THEN << Head(s) >> \o re_sub_hyphen(Tail(s))
       ELSE IF Len(s) >= 2 /\ s[2] \notin SlugChars
            THEN re_sub_hyphen(Tail(s))
            ELSE << "-" >> \o re_sub_hyphen(Tail(s))

RECURSIVE strip_hyphen(_)
(* str.strip('-')                                                          *)
strip_hyphen(s) ==
  IF s # << >> /\ Head(s) = "-" THEN strip_hyphen(Tail(s))
  ELSE IF s # << >> /\ s[Len(s)] = "-"
       THEN strip_hyphen(SubSeq(s, 1, Len(s) - 1))
       ELSE s

SLUG_MAX == 40

slug_of(description) ==
  LET subbed == re_sub_hyphen(strip(lower(description)))
  IN strip_hyphen(SubSeq(subbed, 1, IF Len(subbed) < SLUG_MAX THEN Len(subbed)
                                    ELSE SLUG_MAX))

HexDigits ==
  << "0", "1", "2", "3", "4", "5", "6", "7", "8", "9",
     "a", "b", "c", "d", "e", "f" >>

HASH_LEN == 6

(* hexdigest()[:6] of the text slug-isoformat(now).  MD5 is not computed:  *)
(* the digest is taken to separate every two texts the model hashes, so    *)
(* equal digests here come from equal slug and equal clock reading only.   *)
short_hash(slug, t) ==
  LET n == (Len(slug) + 64 * t) % (16 ^ HASH_LEN)
  IN [ i \in 1..HASH_LEN |-> HexDigits[((n \div (16 ^ (HASH_LEN - i))) % 16) + 1] ]

make_job_id(description, t) ==
  slug_of(description) \o << "-" >> \o short_hash(slug_of(description), t)

(* ---------------------------- the timer files -------------------------- *)
File(unit, ext) == [ unit |-> unit, ext |-> ext ]

JobFiles(unit) ==
  { File(unit, "service"), File(unit, "timer"), File(unit, "meta.json"),
    File(unit, "payload.json") }

(* a metadata file cut short while it was written: json.loads fails        *)
TornMeta ==
  [ ok |-> FALSE, job_id |-> << >>, cron |-> << >>, description |-> << >>,
    unit_name |-> << >> ]

WriteMeta(ms, unit, m) ==
  [ u \in (DOMAIN ms) \cup { unit } |-> IF u = unit THEN m ELSE ms[u] ]

Unlink(ms, units) == [ u \in (DOMAIN ms) \ units |-> ms[u] ]

(* the metadata files json.loads accepts                                   *)
Readable(ms) == { u \in DOMAIN ms : ms[u].ok }

(* --------------------- /schedule, /jobs, /deletejob -------------------- *)
(* what the owner types after /schedule                                    *)
SchedInputs ==
  { << "0", " ", "7", " ", "*", " ", "*", " ", "*", " ", "R", "e", "p" >>,
    << "0", " ", "2", "5", " ", "*", " ", "*", " ", "*", " ", "r", "e", "p" >>,
    << "0", " ", "7", "a", "m", " ", "*", " ", "*", " ", "*", " ", "r", "e", "p" >>,
    << " ", "0", " ", "7", " ", "*", " ", "*", " ", "*", " " >> }

(* the owner may name a job that exists in a later task description        *)
SchedTexts ==
  SchedInputs \cup
  { << "0", " ", "7", " ", "*", " ", "*", " ", "*", " ", "r", "m", " " >> \o metas[u].job_id : u \in Readable(metas) }

Finish(t, reply) == [ sched EXCEPT ![t].pc = "done", ![t].reply = reply ]

(* route_text's /schedule branch, then schedule_job up to the payload file *)
SchedStart(t, text) ==
  /\ sched[t].pc = "idle"
  /\ \A u \in JobThreads : u < t => sched[u].pc # "idle"
  /\ LET sched_text == strip(text)
         parts      == split(sched_text)
     IN IF sched_text = << >>
        THEN /\ sched' = Finish(t, "usage")
             /\ UNCHANGED << timer_dir, writes >>
        ELSE IF Len(parts) < 6
        THEN /\ sched' = [ Finish(t, "need_fields") EXCEPT ![t].text = text ]
             /\ UNCHANGED << timer_dir, writes >>
        ELSE LET cron        == join(<< " " >>, SubSeq(parts, 1, 5))
                 task_desc   == join(<< " " >>, SubSeq(parts, 6, Len(parts)))
                 on_calendar == cron_to_oncalendar(cron)
                 job_id      == make_job_id(task_desc, clock)
                 loc == [ sched[t] EXCEPT !.text = text, !.cron_expr = cron,
                                          !.task_description = task_desc ]
             IN IF on_calendar = None
                THEN /\ sched' = [ sched EXCEPT ![t] =
                                     [ loc EXCEPT !.pc = "done",
                                                  !.reply = "invalid" ] ]
                     /\ UNCHANGED << timer_dir, writes >>
                ELSE /\ sched' = [ sched EXCEPT ![t] =
                                     [ loc EXCEPT !.pc = "write",
                                                  !.on_calendar = on_calendar,
                                                  !.job_id = job_id ] ]
                     /\ timer_dir' = timer_dir \cup
                          { File(SCHEDULED_JOBS_PREFIX \o job_id, "payload.json") }
                     /\ writes' = writes \cup
                          { [ by |-> t,
                              file |-> File(SCHEDULED_JOBS_PREFIX \o job_id,
                                            "payload.json") ] }
  /\ UNCHANGED << clock, metas, enabled, job_list, last_delete, notjobs >>

Schedule(t) == \E text \in SchedTexts : SchedStart(t, text)

unit_name(t) == SCHEDULED_JOBS_PREFIX \o sched[t].job_id

(* service_path, timer_path and meta_path are written                      *)
SchedWrite(t) ==
  /\ sched[t].pc = "write"
  /\ timer_dir' = timer_dir \cup JobFiles(unit_name(t))
  /\ metas' = WriteMeta(metas, unit_name(t),
                [ ok |-> TRUE, job_id |-> sched[t].job_id,
                  cron |-> sched[t].cron_expr,
                  description |-> sched[t].task_description,
                  unit_name |-> unit_name(t) ])
  /\ writes' = writes \cup
       { [ by |-> t, file |-> f ] :
           f \in JobFiles(unit_name(t)) \ { File(unit_name(t), "payload.json") } }
  /\ sched' = [ sched EXCEPT ![t].pc = "enable" ]
  /\ clock' = clock + 1
  /\ UNCHANGED << enabled, job_list, last_delete, notjobs >>

(* write_text raises OSError, or the process stops, before the service     *)
(* file or inside the metadata file; nothing is cleaned up                 *)
SchedRaise(t, at) ==
  /\ sched[t].pc = "write"
  /\ IF at = "service"
     THEN UNCHANGED << timer_dir, metas, writes >>
     ELSE /\ timer_dir' = timer_dir \cup JobFiles(unit_name(t))
          /\ metas' = WriteMeta(metas, unit_name(t), TornMeta)
          /\ writes' = writes \cup
               { [ by |-> t, file |-> f ] :
                   f \in JobFiles(unit_name(t))
                           \ { File(unit_name(t), "payload.json") } }
  /\ sched' = Finish(t, "raised")
  /\ clock' = clock + 1
  /\ UNCHANGED << enabled, job_list, last_delete, notjobs >>

(* daemon-reload, enable --now, and the reply                              *)
SchedEnable(t, ok) ==
  /\ sched[t].pc = "enable"
  /\ IF ok
     THEN /\ enabled' = enabled \cup { unit_name(t) }
          /\ sched' = Finish(t, "created")
     ELSE /\ UNCHANGED enabled
          /\ sched' = Finish(t, "failed")
  /\ clock' = clock + 1
  /\ UNCHANGED << timer_dir, metas, writes, job_list, last_delete, notjobs >>

(* other work of the host lets the clock advance                           *)
ClockTick ==
  /\ clock < MaxClock
  /\ clock' = clock + 1
  /\ UNCHANGED << timer_dir, metas, enabled, sched, writes, job_list,
                  last_delete, notjobs >>

(* list_jobs: one entry per readable metadata file                         *)
list_jobs(ms) ==
  { [ job_id |-> ms[u].job_id, cron |-> ms[u].cron ] : u \in Readable(ms) }

ListJobs ==
  /\ job_list' = list_jobs(metas)
  /\ UNCHANGED << clock, timer_dir, metas, enabled, sched, writes,
                  last_delete, notjobs >>

(* what one pass of the "all" loop removes for the metadata file u         *)
RemovedWith(ms, u) ==
  IF ms[u].ok /\ ms[u].unit_name # << >>
  THEN { File(ms[u].unit_name, "service"), File(ms[u].unit_name, "timer"),
         File(ms[u].unit_name, "payload.json"), File(u, "meta.json") }
  ELSE { File(u, "meta.json") }

DisabledWith(ms, u) ==
  IF ms[u].ok /\ ms[u].unit_name # << >> THEN { ms[u].unit_name } ELSE {}

(* the metadata files the targeted search may stop at: glob order is the   *)
(* directory's, and the first file whose job_id equals or contains the     *)
(* argument is taken                                                       *)
Matches(ms, job_id) ==
  { u \in Readable(ms) :
      ms[u].job_id = job_id \/ contains(ms[u].job_id, job_id) }

DeleteInputs ==
  { << "a", "l", "l" >>, << "z", "z", "z" >> } \cup { metas[u].job_id : u \in Readable(metas) }

delete_job(job_id) ==
  /\ last_delete.n < MaxDeletes
  /\ IF lower(job_id) = << "a", "l", "l" >>
     THEN IF DOMAIN metas = {}
          THEN /\ last_delete' = [ n |-> last_delete.n + 1, arg |-> job_id,
                                   reply |-> "nothing_to_delete" ]
               /\ UNCHANGED << timer_dir, metas, enabled >>
          ELSE /\ timer_dir' = timer_dir \
                    UNION { RemovedWith(metas, u) : u \in DOMAIN metas }
               /\ enabled' = enabled \
                    UNION { DisabledWith(metas, u) : u \in DOMAIN metas }
               /\ metas' = Unlink(metas, DOMAIN metas)
               /\ last_delete' = [ n |-> last_delete.n + 1, arg |-> job_id,
                                   reply |-> "deleted_all" ]
     ELSE IF Matches(metas, job_id) = {}
          THEN /\ last_delete' = [ n |-> last_delete.n + 1, arg |-> job_id,
                                   reply |-> "not_found" ]
               /\ UNCHANGED << timer_dir, metas, enabled >>
          ELSE \E u \in Matches(metas, job_id) :
                 /\ timer_dir' = timer_dir \ RemovedWith(metas, u)
                 /\ enabled' = enabled \ DisabledWith(metas, u)
                 /\ metas' = Unlink(metas, { u })
                 /\ last_delete' = [ n |-> last_delete.n + 1, arg |-> job_id,
                                     reply |-> "deleted" ]
  /\ UNCHANGED << clock, sched, writes, job_list, notjobs >>

DeleteJob == \E job_id \in DeleteInputs : delete_job(job_id)

JobNext ==
  \/ \E t \in JobThreads : Schedule(t)
  \/ \E t \in JobThreads : SchedWrite(t)
  \/ \E t \in JobThreads, at \in { "service", "meta" } : SchedRaise(t, at)
  \/ \E t \in JobThreads, ok \in BOOLEAN : SchedEnable(t, ok)
  \/ ClockTick
  \/ ListJobs
  \/ DeleteJob

JobSpec == Init /\ [][JobNext]_vars

(* ------------- the job compiler serving one request at a time ---------- *)
Quiet == \A t \in JobThreads : sched[t].pc \in { "idle", "done" }

SeqSchedule == Quiet /\ \E t \in JobThreads : Schedule(t)

SeqListJobs == Quiet /\ ListJobs

SeqDeleteJob == Quiet /\ DeleteJob

JobSeqNext ==
  \/ SeqSchedule
  \/ \E t \in JobThreads : SchedWrite(t)
  \/ \E t \in JobThreads, at \in { "service", "meta" } : SchedRaise(t, at)
  \/ \E t \in JobThreads, ok \in BOOLEAN : SchedEnable(t, ok)
  \/ ClockTick
  \/ SeqListJobs
  \/ SeqDeleteJob

JobSeqSpec == Init /\ [][JobSeqNext]_vars

(* ======================== conversation memory ========================== *)
CONVERSATION_MAX == 20
TEXT_MAX == 500
RESPONSE_MAX == 300

(* text[:n]                                                                *)
Truncate(text, n) == [ text EXCEPT !.len = IF text.len < n THEN text.len ELSE n ]

(* what a thread may record: the owner's message, the agent's response     *)
ConvInputs ==
  [ route  |-> { [ role |-> "user", text |-> [ word |-> << "h", "e", "l", "l", "o" >>, len |-> 5 ] ],
                 [ role |-> "user", text |-> [ word |-> << "e", "s", "s", "a", "y" >>, len |-> 501 ] ] },
    worker |-> { [ role |-> "ashley",
                   text |-> Truncate([ word |-> << "a", "n", "s", "w", "e", "r" >>, len |-> 400 ],
                                     RESPONSE_MAX) ] } ]

(* the buffer after the owner's first n messages                           *)
Earlier(n) ==
  [ i \in 1..n |-> [ role |-> "user", text |-> [ word |-> << "h", "e", "l", "l", "o" >>, len |-> 5 ],
                     time |-> i ] ]

EarlierCalls == { 0, 18 }

(* messages[-CONVERSATION_MAX:] as a bug would have it: nothing dropped    *)
save_conversation_buffer_untrimmed(messages) == messages

(* _save_conversation_buffer: what is written                              *)
save_conversation_buffer(messages) ==
  IF Len(messages) <= CONVERSATION_MAX THEN messages
  ELSE SubSeq(messages, Len(messages) - CONVERSATION_MAX + 1, Len(messages))

ConvInit ==
  /\ RouterInit
  /\ PollerIdle
  /\ TELEGRAM_ALLOW_FROM = {}
  /\ offset_file = 0
  /\ initial_offset = 0
  /\ CronIdle
  /\ JobsIdle
  /\ RestIdle
  /\ HttpIdle
  /\ ConvThreadsIdle
  /\ conv_calls \in EarlierCalls
  /\ conv_file = Earlier(conv_calls)
  /\ appended = Earlier(conv_calls)

(* buf = _load_conversation_buffer(); buf.append({...})                    *)
ConvLoad(t, m) ==
  /\ conv[t].pc = "idle"
  /\ conv_left > 0
  /\ conv_left' = conv_left - 1
  /\ conv_calls' = conv_calls + 1
  /\ conv' = [ conv EXCEPT ![t] =
       [ pc |-> "save", buf |-> conv_file,
         entry |-> [ role |-> m.role, text |-> Truncate(m.text, TEXT_MAX),
                     time |-> conv_calls + 1 ] ] ]
  /\ overlapped' = (overlapped \/ \E u \in ConvThreads : conv[u].pc = "save")
  /\ UNCHANGED << conv_file, appended, notconv >>

(* _save_conversation_buffer(buf)                                          *)
ConvSave(t) ==
  /\ conv[t].pc = "save"
  /\ conv_file' = save_conversation_buffer(Append(conv[t].buf, conv[t].entry))
  /\ appended' = Append(appended, conv[t].entry)
  /\ conv' = [ conv EXCEPT ![t] =
                 [ pc |-> "idle", buf |-> << >>, entry |-> NoEntry ] ]
  /\ UNCHANGED << conv_calls, conv_left, overlapped, notconv >>

ConvNext ==
  \/ \E t \in ConvThreads : \E m \in ConvInputs[t] : ConvLoad(t, m)
  \/ \E t \in ConvThreads : ConvSave(t)

ConvSpec == ConvInit /\ [][ConvNext]_vars

(* ============================ POST /route ============================== *)
(* ALLOWED_ASK_AGENTS, as the characters route_text compares               *)
ASK_AGENT_NAMES ==
  { << "p", "l", "a", "n", "n", "e", "r" >>, << "c", "o", "d", "e", "r" >>, << "t", "e", "s", "t", "e", "r" >> }
ASK_DEFAULT_AGENT == << "p", "l", "a", "n", "n", "e", "r" >>
WEATHER_LOCATION == << "N", "e", "w", " ", "Y", "o", "r", "k", ",", "U", "S" >>
PREVIEW_MAX == 120
PREVIEW_KEEP == 117
CONTEXT_MESSAGES == 10
CONTEXT_MIN == 50

(* one outcome of route_text: the function it hands the text to and with   *)
(* what, what it returns, the threads it starts, what it records, and      *)
(* whether it raises instead of returning                                  *)
Outcome(handler, arg, reply, workers) ==
  [ handler |-> handler, arg |-> arg, reply |-> reply, workers |-> workers,
    record |-> << >>, raises |-> FALSE ]

UsageReply(handler, head) == Outcome(handler, << >>, Reply(head, << >>, ""), << >>)

(* a handler whose answer comes from outside the router: the reply is      *)
(* whatever that handler returns for this argument                         *)
Local(handler, arg) == Outcome(handler, arg, Reply(handler, arg, ""), << >>)

(* stripped[n:].strip()                                                    *)
after(stripped, n) == strip(SubSeq(stripped, n + 1, Len(stripped)))

(* preview = text.replace("\n", " "); preview[:117] + "..." past 120       *)
preview_of(text) ==
  LET preview == [ i \in 1..Len(text) |-> IF text[i] = "\n" THEN " " ELSE text[i] ]
  IN  IF Len(preview) > PREVIEW_MAX
        THEN SubSeq(preview, 1, PREVIEW_KEEP) \o << ".", ".", "." >>
        ELSE preview

should_handle_status(text) ==
  \E keyword \in
    { << "s", "t", "a", "t", "u", "s" >>, << "t", "a", "s", "k", "s" >>, << "t", "a", "s", "k" >>, << "q", "u", "e", "u", "e" >>, << "b", "l", "o", "c", "k", "e", "d" >>, << "b", "l", "o", "c", "k", "e", "r", "s" >>, << "t", "i", "m", "e", "r" >>,
      << "s", "e", "r", "v", "i", "c", "e" >>, << "s", "y", "s", "t", "e", "m", "d" >>, << "g", "p", "u" >>, << "n", "v", "i", "d", "i", "a" >> } :
    contains(lower(text), keyword)

queue_prompt_dry(text) ==
  LET request_text == strip(text)
  IN  IF request_text = << >>
        THEN UsageReply("queue_prompt_dry", "Usage: /prompt <request>")
        ELSE Outcome("queue_prompt_dry", request_text,
                     Reply("Queued prompt optimization: ", preview_of(request_text),
                           ". You will receive the optimized prompt via owner-message."),
                     << [ target |-> "prompt_dry_worker", args |-> << request_text >> ] >>)

queue_adhoc_coder(instruction) ==
  LET request_text == strip(instruction)
  IN  IF request_text = << >>
        THEN UsageReply("queue_adhoc_coder", "Usage: /adhoc <one-off instruction>")
        ELSE Outcome("queue_adhoc_coder", request_text,
                     Reply("Queued adhoc doer request: ", preview_of(request_text),
                           ". You will receive the result via owner-message."),
                     << [ target |-> "adhoc_coder_worker", args |-> << request_text >> ] >>)

(* question.split(maxsplit=1): an agent name in front selects the agent    *)
queue_ask_agent(asking) ==
  LET question_text == strip(asking)
      parts == split(question_text)
      named == Len(parts) >= 2 /\ lower(parts[1]) \in ASK_AGENT_NAMES
      target_agent == IF named THEN lower(parts[1]) ELSE ASK_DEFAULT_AGENT
      asked == IF named
                 THEN strip(SubSeq(question_text, Len(parts[1]) + 1, Len(question_text)))
                 ELSE question_text
  IN  IF question_text = << >>
        THEN UsageReply("queue_ask_agent", "Usage: /ask <question>")
        ELSE Outcome("queue_ask_agent", asked, Reply("", << >>, ""),
                     << [ target |-> "ask_agent_async_worker", args |-> << target_agent, asked >> ] >>)

add_lesson(lesson_text) ==
  IF strip(lesson_text) = << >>
    THEN UsageReply("add_lesson", "Usage: /lesson <lesson learned>")
    ELSE Local("add_lesson", strip(lesson_text))

add_project_note(raw) ==
  IF strip(raw) = << >>
    THEN UsageReply("add_project_note",
               "Usage: /project <project>|<note> (or /project <note> when a recent project exists)")
    ELSE Local("add_project_note", strip(raw))

(* a handler that loads google-services.py first: exec_module raises when *)
(* the file is missing (whether it is there is part of the deployment);    *)
(* else the handler's own test of its argument, its usage string, its work *)
google_handler(handler, text, gs, malformed, usage) ==
  IF gs = "missing"
    THEN [ Outcome(handler, text, Reply("", << >>, ""), << >>) EXCEPT !.raises = TRUE ]
  ELSE IF malformed THEN UsageReply(handler, usage)
  ELSE Local(handler, text)

(* the prefixes route_text tries, in the order it tries them               *)
Commands ==
  << [ name |-> "plan",         prefix |-> << "/", "p", "l", "a", "n" >> ],
     [ name |-> "prompt",       prefix |-> << "/", "p", "r", "o", "m", "p", "t" >> ],
     [ name |-> "thinkdry",     prefix |-> << "/", "t", "h", "i", "n", "k", "d", "r", "y" >> ],
     [ name |-> "think",        prefix |-> << "/", "t", "h", "i", "n", "k" >> ],
     [ name |-> "lesson",       prefix |-> << "/", "l", "e", "s", "s", "o", "n" >> ],
     [ name |-> "project",      prefix |-> << "/", "p", "r", "o", "j", "e", "c", "t" >> ],
     [ name |-> "adhoc",        prefix |-> << "/", "a", "d", "h", "o", "c" >> ],
     [ name |-> "ask",          prefix |-> << "/", "a", "s", "k" >> ],
     [ name |-> "schedule",     prefix |-> << "/", "s", "c", "h", "e", "d", "u", "l", "e" >> ],
     [ name |-> "jobs",         prefix |-> << "/", "j", "o", "b", "s" >> ],
     [ name |-> "deletejob",    prefix |-> << "/", "d", "e", "l", "e", "t", "e", "j", "o", "b" >> ],
     [ name |-> "pending",      prefix |-> << "/", "p", "e", "n", "d", "i", "n", "g" >> ],
     [ name |-> "answer",       prefix |-> << "/", "a", "n", "s", "w", "e", "r" >> ],
     [ name |-> "emails",       prefix |-> << "/", "e", "m", "a", "i", "l", "s" >> ],
     [ name |-> "email",        prefix |-> << "/", "e", "m", "a", "i", "l", " " >> ],
     [ name |-> "sendemail",    prefix |-> << "/", "s", "e", "n", "d", "e", "m", "a", "i", "l" >> ],
     [ name |-> "calendar",     prefix |-> << "/", "c", "a", "l", "e", "n", "d", "a", "r" >> ],
     [ name |-> "event",        prefix |-> << "/", "e", "v", "e", "n", "t" >> ],
     [ name |-> "delevent",     prefix |-> << "/", "d", "e", "l", "e", "v", "e", "n", "t" >> ],
     [ name |-> "unread",       prefix |-> << "/", "u", "n", "r", "e", "a", "d" >> ],
     [ name |-> "weather",      prefix |-> << "/", "w", "e", "a", "t", "h", "e", "r" >> ],
     [ name |-> "search",       prefix |-> << "/", "s", "e", "a", "r", "c", "h" >> ],
     [ name |-> "notes",        prefix |-> << "/", "n", "o", "t", "e", "s" >> ],
     [ name |-> "note",         prefix |-> << "/", "n", "o", "t", "e" >> ],
     [ name |-> "save",         prefix |-> << "/", "s", "a", "v", "e" >> ],
     [ name |-> "links",        prefix |-> << "/", "l", "i", "n", "k", "s" >> ],
     [ name |-> "briefing",     prefix |-> << "/", "b", "r", "i", "e", "f", "i", "n", "g" >> ],
     [ name |-> "weeklyreview", prefix |-> << "/", "w", "e", "e", "k", "l", "y", "r", "e", "v", "i", "e", "w" >> ],
     [ name |-> "remember",     prefix |-> << "/", "r", "e", "m", "e", "m", "b", "e", "r" >> ],
     [ name |-> "recall",       prefix |-> << "/", "r", "e", "c", "a", "l", "l" >> ],
     [ name |-> "forget",       prefix |-> << "/", "f", "o", "r", "g", "e", "t" >> ],
     [ name |-> "memories",     prefix |-> << "/", "m", "e", "m", "o", "r", "i", "e", "s" >> ] >>

(* the branch of a command: the if-block under its startswith test         *)
Branch(c, stripped, gs) ==
  LET arg == after(stripped, Len(c.prefix))
  IN  CASE c.name = "plan" ->
             IF arg = << >> THEN UsageReply("route_text", "Usage: /plan <request>")
             ELSE Outcome("spawn_planner", arg,
                          Reply("Queued for planner: ", preview_of(arg), ""),
                          << [ target |-> "planner_worker", args |-> << arg >> ] >>)
        [] c.name \in { "prompt", "thinkdry" } ->
             IF arg = << >> THEN UsageReply("route_text", "Usage: /prompt <request>")
             ELSE queue_prompt_dry(arg)
        [] c.name = "think" ->
             IF arg = << >> THEN UsageReply("route_text", "Usage: /think <request>")
             ELSE Outcome("spawn_think", arg,
                          Reply("Queued for think+plan: ", preview_of(arg), ""),
                          << [ target |-> "think_worker", args |-> << arg >> ] >>)
        [] c.name = "lesson" -> add_lesson(arg)
        [] c.name = "project" -> add_project_note(arg)
        [] c.name = "adhoc" -> queue_adhoc_coder(arg)
        [] c.name = "ask" ->
             IF arg = << >>
               THEN UsageReply("route_text", "Usage: /ask <question> or /ask <agent> <question>")
               ELSE queue_ask_agent(arg)
        [] c.name = "schedule" ->
             IF arg = << >>
               THEN UsageReply("route_text", "Usage: /schedule <cron> <task description>")
             ELSE IF Len(split(arg)) < 6
               THEN Outcome("route_text", << >>,
                            Reply("Need 5 cron fields + a task description.", << >>, ""),
                            << >>)
             ELSE Local("schedule_job", join(" ", split(arg)))
        [] c.name = "jobs" -> Local("list_jobs", << >>)
        [] c.name = "deletejob" ->
             IF arg = << >>
               THEN UsageReply("route_text", "Usage: /deletejob <job_id>  or  /deletejob all")
               ELSE Local("delete_job", arg)
        [] c.name = "pending" -> Local("list_pending_questions", << >>)
        [] c.name = "answer" ->
             IF arg = << >>
               THEN UsageReply("route_text",
                          "Usage: /answer <your response to the agent's question>")
               ELSE Local("handle_owner_reply", arg)
        [] c.name = "emails" ->
             google_handler("_handle_emails", stripped, gs, FALSE, "")
        [] c.name = "email" ->
             google_handler("_handle_read_email", stripped, gs, Len(split(stripped)) < 2,
                            "Usage: /email <message_id>")
        [] c.name = "sendemail" ->
             google_handler("_handle_send_email", stripped, gs, arg = << >>,
                            "Usage: /sendemail to@email.com | subject | body text")
        [] c.name = "calendar" ->
             google_handler("_handle_calendar", stripped, gs, FALSE, "")
        [] c.name = "event" ->
             google_handler("_handle_create_event", stripped, gs, arg = << >>,
                            "Usage: /event <start_time> | <title> [| description] [| location]")
        [] c.name = "delevent" ->
             google_handler("_handle_delete_event", stripped, gs, Len(split(stripped)) < 2,
                            "Usage: /delevent <event_id>")
        [] c.name = "unread" -> google_handler("_handle_unread", << >>, gs, FALSE, "")
        [] c.name = "weather" -> Local("_handle_weather", stripped)
        [] c.name = "search" ->
             IF Len(split(stripped)) < 2
               THEN UsageReply("_handle_search", "Usage: /search <query>")
               ELSE Local("_handle_search", stripped)
        [] c.name = "notes" -> Local("_handle_notes", stripped)
        [] c.name = "note" ->
             IF arg = << >>
               THEN UsageReply("_handle_note", "Usage: /note <your note text>")
               ELSE Local("_handle_note", stripped)
        [] c.name = "save" ->
             IF Len(split(stripped)) < 2
               THEN UsageReply("_handle_save_link", "Usage: /save <url> [tag1 tag2 ...]")
               ELSE Local("_handle_save_link", stripped)
        [] c.name = "links" -> Local("_handle_links", stripped)
        [] c.name = "briefing" -> Local("_handle_briefing", << >>)
        [] c.name = "weeklyreview" -> Local("_handle_weekly_review", << >>)
        [] c.name = "remember" ->
             IF arg = << >>
               THEN UsageReply("route_text", "Usage: /remember <fact or preference to store>")
               ELSE Local("store_fact", arg)
        [] c.name = "recall" ->
             IF arg = << >>
               THEN UsageReply("route_text", "Usage: /recall <what to search for>")
               ELSE Local("search", arg)
        [] c.name = "forget" ->
             IF arg = << >> \/ \E i \in 1..Len(arg) : arg[i] \notin Digits
               THEN UsageReply("route_text", "Usage: /forget <memory_id>")
               ELSE Local("delete", arg)
        [] c.name = "memories" -> Local("count", << >>)

(* get_conversation_context: the last ten messages                         *)
context_of(buf) ==
  IF Len(buf) <= CONTEXT_MESSAGES THEN buf
  ELSE SubSeq(buf, Len(buf) - CONTEXT_MESSAGES + 1, Len(buf))

(* the length of their lines "\n[role] text"; the header line is 20 long   *)
RECURSIVE lines_len(_)
lines_len(msgs) ==
  IF msgs = << >> THEN 0
  ELSE 1 + (IF Head(msgs).role = "user" THEN 6 ELSE 8) + 1 + Head(msgs).text.len
       + lines_len(Tail(msgs))

(* the last block of route_text: record the message, hand it to the        *)
(* planner with the recent conversation in front when that is longer than  *)
(* 50 characters (the long-term memory service is taken as not configured: *)
(* get_memory_context returns "")                                          *)
fallthrough(stripped, buf, time) ==
  LET entry == [ role |-> "user",
                 text |-> Truncate([ word |-> stripped, len |-> Len(stripped) ], TEXT_MAX),
                 time |-> time ]
      saved == save_conversation_buffer(Append(buf, entry))
      context == IF 20 + lines_len(context_of(saved)) > CONTEXT_MIN
                   THEN context_of(saved) ELSE << >>
  IN  [ Outcome("spawn_planner", stripped,
                Reply("Queued for planner: ", preview_of(stripped), ""),
                << [ target |-> "planner_worker", args |-> << context, stripped >> ] >>)
        EXCEPT !.record = << entry >> ]

route_text(text, buf, time, gs) ==
  LET stripped == strip(text)
      lowered == lower(stripped)
      matching == { i \in 1..Len(Commands) : startswith(lowered, Commands[i].prefix) }
  IN  IF stripped = << >> THEN Outcome("", << >>, Reply("", << >>, ""), << >>)
      ELSE IF matching # {}
        THEN Branch(Commands[CHOOSE i \in matching : \A j \in matching : i <= j],
                    stripped, gs)
      ELSE IF contains(lowered, << "w", "e", "a", "t", "h", "e", "r" >>) /\ ~ startswith(lowered, << "/" >>)
        THEN Local("_handle_weather", << "/", "w", "e", "a", "t", "h", "e", "r", " " >> \o WEATHER_LOCATION)
      ELSE IF should_handle_status(lowered)
        THEN Local("handle_status_query", lowered)
      ELSE fallthrough(stripped, buf, time)

(* what the owner may type                                                 *)
LongText == [ i \in 1..(PREVIEW_MAX + 1) |-> "x" ]

TypedTexts ==
  { << >>, << "/", "p", "l", "a", "n", " ", "f", "i", "x" >>, << "/", "P", "l", "a", "n", " ", "f", "i", "x" >>, << "/", "p", "l", "a", "n" >>, << "/", "p", "l", "a", "n", "e", "t", " ", "x" >>, << "/", "p", "r", "o", "m", "p", "t" >>,
    << "/", "p", "r", "o", "m", "p", "t", " ", "h", "i" >>, << "/", "t", "h", "i", "n", "k", "d", "r", "y" >>, << "/", "t", "h", "i", "n", "k", "d", "r", "y", " ", "g", "o" >>, << "/", "t", "h", "i", "n", "k" >>, << "/", "t", "h", "i", "n", "k", " ", "g", "o" >>,
    << "/", "l", "e", "s", "s", "o", "n" >>, << "/", "p", "r", "o", "j", "e", "c", "t" >>, << "/", "a", "d", "h", "o", "c" >>, << "/", "a", "d", "h", "o", "c", " ", "l", "s" >>, << "/", "a", "s", "k" >>, << "/", "a", "s", "k", " ", "c", "o", "d", "e", "r", " ", "h", "i" >>,
    << "/", "a", "s", "k", " ", "T", "e", "s", "t", "e", "r", " ", " ", "g", "o" >>, << "/", "a", "s", "k", " ", "h", "i" >>, << "/", "s", "c", "h", "e", "d", "u", "l", "e" >>, << "/", "s", "c", "h", "e", "d", "u", "l", "e", " ", "0", " ", "7" >>, << "/", "j", "o", "b", "s" >>,
    << "/", "d", "e", "l", "e", "t", "e", "j", "o", "b" >>, << "/", "p", "e", "n", "d", "i", "n", "g" >>, << "/", "a", "n", "s", "w", "e", "r" >>, << "/", "e", "m", "a", "i", "l", "s" >>, << "/", "e", "m", "a", "i", "l" >>, << "/", "e", "m", "a", "i", "l", " ", "7" >>,
    << "/", "s", "e", "n", "d", "e", "m", "a", "i", "l" >>, << "/", "c", "a", "l", "e", "n", "d", "a", "r" >>, << "/", "e", "v", "e", "n", "t" >>, << "/", "d", "e", "l", "e", "v", "e", "n", "t" >>, << "/", "u", "n", "r", "e", "a", "d" >>,
    << "/", "w", "e", "a", "t", "h", "e", "r" >>, << "/", "s", "e", "a", "r", "c", "h" >>, << "/", "s", "e", "a", "r", "c", "h", " ", "x" >>, << "/", "n", "o", "t", "e", "s" >>, << "/", "n", "o", "t", "e" >>, << "/", "s", "a", "v", "e" >>,
    << "/", "l", "i", "n", "k", "s" >>, << "/", "b", "r", "i", "e", "f", "i", "n", "g" >>, << "/", "w", "e", "e", "k", "l", "y", "r", "e", "v", "i", "e", "w" >>, << "/", "r", "e", "m", "e", "m", "b", "e", "r" >>, << "/", "r", "e", "c", "a", "l", "l" >>,
    << "/", "r", "e", "c", "a", "l", "l", " ", "x" >>, << "/", "f", "o", "r", "g", "e", "t" >>, << "/", "f", "o", "r", "g", "e", "t", " ", "x" >>, << "/", "m", "e", "m", "o", "r", "i", "e", "s" >>, << "/", "f", "o", "o" >>, << "h", "e", "l", "l", "o" >>,
    << "a", "\n", "b" >>, << "g", "p", "u", " ", "s", "t", "a", "t", "u", "s" >>, << "w", "e", "a", "t", "h", "e", "r", " ", "n", "o", "w" >>, << "/", "p", "l", "a", "n", " " >> \o LongText, LongText }

Pad(text) == << " ", " " >> \o text \o << " ", " " >>

TextInputs ==
  TypedTexts \cup { Pad(t) : t \in TypedTexts }
              \cup { << "\t" >> \o t \o << "\n" >> :
                       t \in { << >>, << "h", "e", "l", "l", "o" >>,
                               << "/", "a", "s", "k" >>, << "/", "j", "o", "b", "s" >> } }

(* the body of a request: not JSON; JSON that is not an object; an object  *)
(* without "text", with a string "text", with a "text" of another type     *)
Bodies ==
  [ json : { FALSE }, shape : { "" }, text_type : { "" }, text : { << >> } ]
    \cup [ json : { TRUE }, shape : { "array", "string", "number", "null" },
           text_type : { "" }, text : { << >> } ]
    \cup [ json : { TRUE }, shape : { "object" },
           text_type : { "absent", "number", "null" }, text : { << >> } ]
    \cup [ json : { TRUE }, shape : { "object" }, text_type : { "string" },
           text : TextInputs ]

thread_join(w) ==
  [ target |-> w.target, args |-> w.args, pc |-> "done", did |-> << "agent" >>,
    output |-> << >>, text |-> << >>, served |-> << >> ]

(* threading.Thread(target, args, daemon=True).start(): the thread exists  *)
(* and has run nothing yet when start() returns                            *)
thread_start(w) ==
  [ target |-> w.target, args |-> w.args, pc |-> "started", did |-> << >>,
    output |-> << >>, text |-> << >>, served |-> << >> ]

(* _get_vmem().store(content, category="conversation") inside the try of   *)
(* record_conversation: a row when the module loads and the insert goes    *)
(* through, otherwise the error is printed and nothing is stored           *)
store(vm, entry) ==
  IF vm.up
  THEN [ vm EXCEPT !.rows = Append(@, [ category |-> "conversation",
                                        role |-> entry.role, text |-> entry.text ]) ]
  ELSE vm

Responded(b, status, result) ==
  http' = [ http EXCEPT !.n = http.n + 1, !.body = b, !.status = status,
                        !.result = result ]

(* do_POST for /route: 400 when json.loads fails; payload.get and          *)
(* text.strip raise on other types and nothing is sent; else 200 with the  *)
(* reply of route_text. io: CONVERSATION_FILE.write_text succeeds, fails   *)
(* on open, or fails half-way                                              *)
Post(b, io) ==
  /\ serving
  /\ http.n < MaxRequests
  /\ IF ~ b.json
       THEN /\ Responded(b, 400, NoResult)
            /\ UNCHANGED << conv_file, conv_calls, appended >>
     ELSE IF b.shape # "object" \/ b.text_type \notin { "absent", "string" }
       THEN /\ Responded(b, 0, [ NoResult EXCEPT !.raises = TRUE ])
            /\ UNCHANGED << conv_file, conv_calls, appended >>
     ELSE \E r \in { route_text(IF b.text_type = "absent" THEN << >> ELSE b.text,
                                 conv_file, conv_calls + 1, http.gs) } :
              IF r.raises
                THEN /\ Responded(b, 0, r)
                     /\ UNCHANGED << conv_file, conv_calls, appended >>
              ELSE IF r.record = << >>
                THEN /\ Responded(b, 200, r)
                     /\ UNCHANGED << conv_file, conv_calls, appended >>
              ELSE IF io = "ok"
                THEN /\ Responded(b, 200, r)
                     /\ conv_file' = save_conversation_buffer(Append(conv_file, r.record[1]))
                     /\ appended' = Append(appended, r.record[1])
                     /\ conv_calls' = conv_calls + 1
              ELSE /\ Responded(b, 0, [ r EXCEPT !.raises = TRUE, !.reply = Reply("", << >>, ""),
                                                 !.workers = << >> ])
                   /\ conv_file' = IF io = "open_fails" THEN conv_file ELSE << >>
                   /\ UNCHANGED << conv_calls, appended >>
  /\ pool' = pool \o [ k \in 1..Len(http'.result.workers) |->
                         thread_start(http'.result.workers[k]) ]
  /\ vmem' = IF appended' # appended THEN store(vmem, appended'[Len(appended')])
             ELSE vmem
  /\ UNCHANGED << conv, conv_left, overlapped, rvars, tvars, pvars, cronvars, jvars,
                  kvars, uvars, ask, owner_msgs, owner_reply, pending_log, serving >>

RouteInit ==
  /\ RouterInit
  /\ PollerIdle
  /\ TELEGRAM_ALLOW_FROM = {}
  /\ offset_file = 0
  /\ initial_offset = 0
  /\ CronIdle
  /\ JobsIdle
  /\ RestIdle
  /\ \E gs \in { "loaded", "missing" } : http = [ NoRequest EXCEPT !.gs = gs ]
  /\ ConvThreadsIdle
  /\ conv_calls \in EarlierCalls
  /\ conv_file = Earlier(conv_calls)
  /\ appended = Earlier(conv_calls)

RouteNext == \E b \in Bodies, io \in { "ok", "open_fails", "write_fails" } : Post(b, io)

RouteSpec == RouteInit /\ [][RouteNext]_vars

(* ----------------- agent_cmd: the --thinking of a temperature ---------- *)
(* temperatures are in hundredths: 0.15 is 15                              *)
thinking_strict(temp) ==
  IF temp < 15 THEN "minimal"
  ELSE IF temp < 35 THEN "low"
  ELSE IF temp < 60 THEN "medium"
  ELSE "high"

thinking_from_temp(temp) ==
  IF temp <= 15 THEN "minimal"
  ELSE IF temp <= 35 THEN "low"
  ELSE IF temp <= 60 THEN "medium"
  ELSE "high"

(* agent_temperature keeps what the environment gives within 0.0..1.0     *)
agent_temperature(parsed) ==
  IF parsed < 0 THEN 0 ELSE IF parsed > MaxTemp THEN MaxTemp ELSE parsed

EnvTemps == (0 - TempMargin)..(MaxTemp + TempMargin)

agent_cmd(i, parsed) ==
  /\ tiers[i] = ""
  /\ temps' = [ temps EXCEPT ![i] = agent_temperature(parsed) ]
  /\ tiers' = [ tiers EXCEPT ![i] = thinking_from_temp(agent_temperature(parsed)) ]
  /\ UNCHANGED << oldvars, uvars, ask, wvars >>

(* nothing of the router, the poller, the jobs or the buffer has run      *)
OldIdle ==
  /\ RouterInit
  /\ PollerIdle
  /\ TELEGRAM_ALLOW_FROM = {}
  /\ offset_file = 0
  /\ initial_offset = 0
  /\ CronIdle
  /\ JobsIdle
  /\ ConvIdle
  /\ HttpIdle

ThinkInit == OldIdle /\ RestIdle

ThinkNext == \E i \in 1..2, parsed \in EnvTemps : agent_cmd(i, parsed)

ThinkSpec == ThinkInit /\ [][ThinkNext]_vars


(* ------------- /unblock and /retry of telegram-task-commands ----------- *)
(* a row of autonomous_tasks is [status, blocked_reason, error_log,        *)
(* assigned_agent, pid, started_at, attempt_count, solution]; a text       *)
(* column that is NULL holds None, a number column NULL                    *)
status_aliases ==
  [ token \in { << "t", "o", "d", "o" >>, << "r", "e", "a", "d", "y" >>, << "r", "e", "a", "d", "y", "_", "f", "o", "r", "_", "t", "e", "s", "t", "i", "n", "g" >>, << "r", "e", "a", "d", "y", "-", "f", "o", "r", "-", "t", "e", "s", "t", "i", "n", "g" >>,
                << "i", "n", "_", "p", "r", "o", "g", "r", "e", "s", "s" >>, << "i", "n", "-", "p", "r", "o", "g", "r", "e", "s", "s" >>, << "i", "n", "p", "r", "o", "g", "r", "e", "s", "s" >> } |->
      IF token = << "t", "o", "d", "o" >> THEN "TODO"
      ELSE IF token \in { << "r", "e", "a", "d", "y" >>, << "r", "e", "a", "d", "y", "_", "f", "o", "r", "_", "t", "e", "s", "t", "i", "n", "g" >>, << "r", "e", "a", "d", "y", "-", "f", "o", "r", "-", "t", "e", "s", "t", "i", "n", "g" >> }
           THEN "READY_FOR_TESTING"
      ELSE "IN_PROGRESS" ]

(* tokens[n:], empty when there are no more than n tokens                  *)
from(tokens, n) == SubSeq(tokens, n + 1, Len(tokens))

parse_unblock_args(tokens) ==
  IF tokens = << >> THEN [ status |-> "TODO", solution |-> << >> ]
  ELSE IF Len(tokens) >= 3
          /\ lower(join(<< " " >>, SubSeq(tokens, 1, 3))) = << "r", "e", "a", "d", "y", " ", "f", "o", "r", " ", "t", "e", "s", "t", "i", "n", "g" >>
    THEN [ status |-> "READY_FOR_TESTING",
           solution |-> strip(join(<< " " >>, from(tokens, 3))) ]
  ELSE IF lower(tokens[1]) \in DOMAIN status_aliases
    THEN [ status |-> status_aliases[lower(tokens[1])],
           solution |-> strip(join(<< " " >>, from(tokens, 1))) ]
  ELSE [ status |-> "TODO", solution |-> strip(join(<< " " >>, tokens)) ]

(* str.isdigit() and int() on ASCII digits, str() of a small count         *)
isdigit(s) == s # << >> /\ \A k \in 1..Len(s) : s[k] \in Digits

RECURSIVE int(_)
int(s) ==
  IF s = << >> THEN 0
  ELSE 10 * int(SubSeq(s, 1, Len(s) - 1))
         + (CHOOSE d \in 0..9 : HexDigits[d + 1] = s[Len(s)])

str(n) == << HexDigits[n + 1] >>

RECURSIVE sql_quote(_)
(* solution.replace("'", "''")                                             *)
sql_quote(s) ==
  IF s = << >> THEN << >>
  ELSE IF Head(s) = "'" THEN << "'", "'" >> \o sql_quote(Tail(s))
  ELSE << Head(s) >> \o sql_quote(Tail(s))

RECURSIVE sql_literal(_)
(* the value of the literal '<body>' as the server reads it: a doubled     *)
(* quote is one quote                                                      *)
sql_literal(body) ==
  IF body = << >> THEN << >>
  ELSE IF Len(body) >= 2 /\ body[1] = "'" /\ body[2] = "'"
    THEN << "'" >> \o sql_literal(SubSeq(body, 3, Len(body)))
  ELSE << Head(body) >> \o sql_literal(Tail(body))

(* the SET list of the UPDATE                                              *)
requeue(row, target, body) ==
  [ row EXCEPT !.status = target, !.blocked_reason = None, !.error_log = None,
               !.assigned_agent = None, !.pid = NULL, !.started_at = NULL,
               !.attempt_count = 0,
               !.solution = IF sql_literal(body) = << >> THEN row.solution
                            ELSE sql_literal(body) ]

(* WITH updated AS (UPDATE ... WHERE <which> AND status = 'BLOCKED'        *)
(* RETURNING id), deleted AS (DELETE FROM blocked_reasons WHERE task_id IN *)
(* (SELECT id FROM updated)) SELECT COUNT of updated: one statement,      *)
(* which is the set of ids the WHERE names                                 *)
requeue_where_id(ts, brs, target, body, which) ==
  LET updated == { i \in which \cap DOMAIN ts : TRUE }
  IN [ tasks |-> [ i \in DOMAIN ts |->
                     IF i \in updated THEN requeue(ts[i], target, body) ELSE ts[i] ],
       blocked_reasons |-> { r \in brs : r.task_id \notin updated },
       count |-> str(Cardinality(updated)) ]

requeue_blocked(ts, brs, target, body, which) ==
  LET updated == { i \in which \cap DOMAIN ts : ts[i].status = "BLOCKED" }
  IN [ tasks |-> [ i \in DOMAIN ts |->
                     IF i \in updated THEN requeue(ts[i], target, body) ELSE ts[i] ],
       blocked_reasons |-> { r \in brs : r.task_id \notin updated },
       count |-> str(Cardinality(updated)) ]

(* run_psql: the statement's output, or "" and nothing done when psql      *)
(* fails                                                                   *)
run_psql(db, done) ==
  IF db = "ok" THEN done
  ELSE [ tasks |-> tasks, blocked_reasons |-> blocked_reasons, count |-> << >> ]

TaskReply(kind, task_id, status, count) ==
  [ kind |-> kind, task_id |-> task_id, status |-> status, count |-> count ]

(* handle_command on /unblock <id> ..., /retry <id> ... and /unblock all   *)
handle_command(text, db) ==
  /\ last_command.n < MaxCommands
  /\ \E parts \in { split(strip(text)) } :
     \E parsed \in { parse_unblock_args(from(parts, 2)) } :
       /\ parts # << >>
       /\ Len(parts) >= 2
       /\ IF lower(parts[1]) \in { << "/", "u", "n", "b", "l", "o", "c", "k" >>, << "/", "r", "e", "t", "r", "y" >> } /\ isdigit(parts[2])
          THEN \E out \in { run_psql(db, requeue_blocked(tasks, blocked_reasons,
                                      parsed.status, sql_quote(parsed.solution),
                                      { int(parts[2]) })) } :
                 /\ tasks' = out.tasks
                 /\ blocked_reasons' = out.blocked_reasons
                 /\ last_command' =
                      [ n |-> last_command.n + 1, text |-> text, db |-> db, tasks |-> tasks,
                        blocked_reasons |-> blocked_reasons,
                        reply |->
                          IF out.count = << "1" >>
                          THEN IF parsed.solution # << >>
                               THEN TaskReply("Task N set to S with solution.",
                                              int(parts[2]), parsed.status, << >>)
                               ELSE TaskReply("Task N set to S.",
                                              int(parts[2]), parsed.status, << >>)
                          ELSE TaskReply("Task N not updated (not blocked or not found).",
                                         int(parts[2]), "", << >>) ]
          ELSE /\ lower(parts[1]) = << "/", "u", "n", "b", "l", "o", "c", "k" >>
               /\ lower(parts[2]) = << "a", "l", "l" >>
               /\ \E out \in { run_psql(db, requeue_blocked(tasks, blocked_reasons,
                                          parsed.status, sql_quote(parsed.solution),
                                          DOMAIN tasks)) } :
                    /\ tasks' = out.tasks
                    /\ blocked_reasons' = out.blocked_reasons
                    /\ last_command' =
                         [ n |-> last_command.n + 1, text |-> text, db |-> db, tasks |-> tasks,
                           blocked_reasons |-> blocked_reasons,
                           reply |->
                             IF out.count # << >>
                             THEN IF parsed.solution # << >>
                                  THEN TaskReply("Requeued C blocked tasks to S with note.",
                                                 0, parsed.status, out.count)
                                  ELSE TaskReply("Requeued C blocked tasks to S.",
                                                 0, parsed.status, out.count)
                             ELSE TaskReply("No blocked tasks to requeue.", 0, "", << >>) ]
  /\ UNCHANGED << oldvars, kvars, ask, wvars >>

(* the tables the commands find: two tasks, blocked or not, a blocked one  *)
(* with its blocked_reasons rows                                           *)
BlockedTask(earlier) ==
  [ status |-> "BLOCKED", blocked_reason |-> << "n", "o", " ", "k", "e", "y" >>, error_log |-> << "4", "0", "1" >>,
    assigned_agent |-> << "c", "o", "d", "e", "r" >>, pid |-> 7, started_at |-> 3, attempt_count |-> 2,
    solution |-> earlier ]

OtherTask(status) ==
  [ status |-> status, blocked_reason |-> None, error_log |-> << "w", "a", "r", "n" >>,
    assigned_agent |-> << "t", "e", "s", "t", "e", "r" >>, pid |-> 9, started_at |-> 5, attempt_count |-> 1,
    solution |-> << "o", "l", "d" >> ]

TaskRows ==
  { BlockedTask(None), BlockedTask(<< "o", "l", "d" >>), OtherTask("IN_PROGRESS"), OtherTask("TODO") }

UnblockTexts ==
  { << "/", "u", "n", "b", "l", "o", "c", "k", " ", "1" >>, << "/", "r", "e", "t", "r", "y", " ", "2" >>, << "/", "u", "n", "b", "l", "o", "c", "k", " ", "3" >>, << " ", " ", "/", "U", "N", "B", "L", "O", "C", "K", " ", "0", "1", " ", "t", "o", "d", "o", " " >>,
    << "/", "r", "e", "t", "r", "y", " ", "1", " ", "r", "e", "a", "d", "y" >>, << "/", "u", "n", "b", "l", "o", "c", "k", " ", "2", " ", "r", "e", "a", "d", "y", " ", "f", "o", "r", " ", "t", "e", "s", "t", "i", "n", "g" >>,
    << "/", "r", "e", "t", "r", "y", " ", "2", " ", "R", "e", "a", "d", "y", " ", "F", "o", "r", " ", " ", "T", "e", "s", "t", "i", "n", "g", " ", "s", "e", "e", " ", "l", "o", "g" >>, << "/", "u", "n", "b", "l", "o", "c", "k", " ", "1", " ", "i", "n", "-", "p", "r", "o", "g", "r", "e", "s", "s" >>,
    << "/", "u", "n", "b", "l", "o", "c", "k", " ", "2", " ", "i", "t", "'", "s", " ", " ", "f", "i", "x", "e", "d" >>, << "/", "r", "e", "t", "r", "y", " ", "1", " ", "r", "e", "a", "d", "y", " ", "f", "o", "r", " ", "m", "e" >>, << "/", "r", "e", "t", "r", "y", " ", "3", " ", "t", "o", "d", "o", " ", "x" >>,
    << "/", "u", "n", "b", "l", "o", "c", "k", " ", "a", "l", "l" >>, << "/", "u", "n", "b", "l", "o", "c", "k", " ", "A", "L", "L", " ", "r", "e", "a", "d", "y", " ", "k", "e", "y", " ", "a", "d", "d", "e", "d" >> }

TaskInit ==
  /\ OldIdle
  /\ ThinkIdle
  /\ AskIdle
  /\ WorkIdle
  /\ tasks \in [ 1..2 -> TaskRows ]
  /\ blocked_reasons =
       { r \in { [ task_id |-> 1, reason |-> << "n", "o", " ", "k", "e", "y" >> ],
                 [ task_id |-> 2, reason |-> << "n", "o", " ", "k", "e", "y" >> ],
                 [ task_id |-> 2, reason |-> << "4", "0", "1" >> ] } :
           tasks[r.task_id].status = "BLOCKED" }
  /\ last_command = [ n |-> 0 ]

TaskNext == \E text \in UnblockTexts, db \in { "ok", "down" } : handle_command(text, db)

TaskSpec == TaskInit /\ [][TaskNext]_vars


(* ------------- ask_owner_question, one statement at a time ------------- *)
(* ask holds the call in progress: where it is, its arguments as           *)
(* normalised, the id create_pending_question returned (0: None), what it  *)
(* has done so far in order, and what it returned                          *)
AskRequests ==
  { [ agent |-> a, task_id |-> t, question |-> q ] :
      a \in { << "p", "l", "a", "n", "n", "e", "r" >>, << " ", "C", "o", "d", "e", "r", " " >>, << "t", "e", "s", "t", "e", "r" >>, << "r", "e", "v", "i", "e", "w", "e", "r" >>, << >> },
      t \in { 0, 1 },
      q \in { << "w", "h", "i", "c", "h", " ", "p", "o", "r", "t", "?" >>, << " ", "w", "h", "i", "c", "h", " ", "h", "o", "s", "t", "?", " " >>, << " ", " " >>, << >> } }

AskReturn(ok, message) ==
  [ ask EXCEPT !.pc = "done", !.result = [ ok |-> ok, message |-> message ] ]

(* the call and its two checks                                             *)
AskValidate(req) ==
  /\ ask.pc \in { "idle", "done", "responded" }
  /\ ask.n < MaxAsks
  /\ \E call \in { [ pc |-> "expire", n |-> ask.n + 1, script |-> ask.script,
                     agent |-> lower(strip(req.agent)), task_id |-> req.task_id,
                     question |-> req.question, qid |-> 0, did |-> << >>,
                     before |-> Len(questions),
                     result |-> [ ok |-> FALSE, message |-> "" ],
                     response |-> [ status |-> 0 ] ] } :
       ask' = IF call.agent \notin ASK_AGENT_NAMES
              THEN [ call EXCEPT !.pc = "done", !.result.message = "Unknown agent" ]
              ELSE IF strip(call.question) = << >>
              THEN [ call EXCEPT !.pc = "done",
                                 !.result.message = "Question text is required." ]
              ELSE call
  /\ UNCHANGED << oldvars, kvars, uvars, wvars >>

AskExpire ==
  /\ ask.pc = "expire"
  /\ questions' = expire_old_questions(questions, now)
  /\ ask' = [ ask EXCEPT !.pc = "insert", !.did = Append(@, "expire") ]
  /\ UNCHANGED << now, solution, notified, followups, confirmations, nreplies,
                  lastList, last_reply, tvars, pvars, cronvars, jvars, cvars, http,
                  kvars, uvars, wvars >>

(* create_pending_question: the id of the new row, or None when psql gave  *)
(* no id                                                                   *)
AskInsert(db) ==
  /\ ask.pc = "insert"
  /\ IF db = "ok"
     THEN /\ questions' = create_pending_question(questions, ask.agent, ask.task_id,
                                                  strip(ask.question), now)
          /\ ask' = [ ask EXCEPT !.pc = "notify", !.qid = Len(questions) + 1,
                                 !.did = Append(@, "insert") ]
     ELSE /\ questions' = questions
          /\ ask' = [ AskReturn(FALSE, "Failed to store question in database.")
                        EXCEPT !.did = Append(@, "insert failed") ]
  /\ now' = now + 1
  /\ UNCHANGED << solution, notified, followups, confirmations, nreplies,
                  lastList, last_reply, tvars, pvars, cronvars, jvars, cvars, http,
                  kvars, uvars, wvars >>

(* the notify script is run with the id when it is a file that can be      *)
(* executed: it sends the message, exits with an error, or is still        *)
(* running after 30 seconds (TimeoutExpired is caught and passed over).    *)
(* Nothing of this reaches the return value.                               *)
AskNotify(how) ==
  /\ ask.pc = "notify"
  /\ IF ask.script = "executable"
     THEN /\ notified' = IF how = "ok" THEN notified \cup { ask.qid } ELSE notified
          /\ ask' = [ AskReturn(TRUE, "Question #N sent to owner. Waiting for reply.")
                        EXCEPT !.did = Append(@, IF how = "ok" THEN "notify"
                                                 ELSE "notify " \o how) ]
     ELSE /\ notified' = notified
          /\ ask' = AskReturn(TRUE, "Question #N sent to owner. Waiting for reply.")
  /\ UNCHANGED << now, questions, solution, followups, confirmations, nreplies,
                  lastList, last_reply, tvars, pvars, cronvars, jvars, cvars, http,
                  kvars, uvars, wvars >>

(* self._json_response(200, {"ok": True, "result": result})                *)
json_response(result) ==
  [ status |-> 200, ok |-> TRUE, result |-> result ]

(* do_POST for /ask-owner around the call: a request whose agent or        *)
(* question is empty after strip() is answered 400 and the function is not *)
(* called (the model's call did nothing for it); every other request is    *)
(* answered with the tuple the function returned                           *)
AskRespond ==
  /\ ask.pc = "done"
  /\ ask' = [ ask EXCEPT
               !.pc = "responded",
               !.response =
                 IF ask.agent = << >> \/ strip(ask.question) = << >>
                 THEN [ status |-> 400, ok |-> FALSE,
                        result |-> [ ok |-> FALSE, message |-> "agent and question required" ] ]
                 ELSE json_response(ask.result) ]
  /\ UNCHANGED << oldvars, kvars, uvars, wvars >>

AskInit ==
  /\ OldIdle
  /\ ThinkIdle
  /\ TasksIdle
  /\ WorkIdle
  /\ \E script \in { "executable", "missing" } :
       ask = [ pc |-> "idle", n |-> 0, script |-> script ]

AskNext ==
  \/ \E req \in AskRequests : AskValidate(req)
  \/ AskExpire
  \/ \E db \in { "ok", "fails" } : AskInsert(db)
  \/ \E how \in { "ok", "nonzero", "timeout" } : AskNotify(how)
  \/ AskRespond
  \/ Tick

AskSpec == AskInit /\ [][AskNext]_vars


(* ------------------------ the worker threads --------------------------- *)
(* pool holds the threads POST /route started: the target, its arguments,  *)
(* where it is (started: its agent subprocess is running), what it has     *)
(* done so far in order, the last output of its agent and the text it      *)
(* carries to its next step                                                *)
ANSWER_MAX == 3500

extract_unchecked(output) == output

(* output.find("{"), output.rfind("}") and the slice between them          *)
extract_json_payload(output) ==
  LET opens == { i \in 1..Len(output) : output[i] = "{" }
      closes == { i \in 1..Len(output) : output[i] = "}" }
      start == CHOOSE i \in opens : \A j \in opens : i <= j
      end == CHOOSE i \in closes : \A j \in closes : j <= i
  IN  IF opens = {} \/ closes = {} THEN None
      ELSE IF end <= start THEN None
      ELSE SubSeq(output, start, end)

RECURSIVE strip_quotes(_)
(* text.strip('"')                                                         *)
strip_quotes(s) ==
  IF s # << >> /\ Head(s) = "\"" THEN strip_quotes(Tail(s))
  ELSE IF s # << >> /\ s[Len(s)] = "\"" THEN strip_quotes(SubSeq(s, 1, Len(s) - 1))
  ELSE s

(* normalize_think_output on an output without a code fence                *)
normalize_think_output(output) == strip(strip_quotes(strip(output)))

(* answer_text[:3500] + "\n...<truncated>" when it is longer               *)
truncated(answer) ==
  IF Len(answer) > ANSWER_MAX
  THEN SubSeq(answer, 1, ANSWER_MAX) \o << "\n", ".", ".", ".", "<", "t", "r", "u", "n", "c", "a", "t", "e", "d", ">" >>
  ELSE answer

(* the agent, the question and the fallback answer of an owner-facing      *)
(* worker                                                                  *)
OwnerFacing == { "prompt_dry_worker", "adhoc_coder_worker", "ask_agent_async_worker" }

agent_of(t) ==
  CASE t.target = "ask_agent_async_worker" -> t.args[1]
    [] t.target = "adhoc_coder_worker" -> << "c", "o", "d", "e", "r" >>
    [] OTHER -> << "p", "l", "a", "n", "n", "e", "r" >>

question_of(t) ==
  IF t.target = "ask_agent_async_worker" THEN t.args[2] ELSE t.args[1]

(* think_dry, and the answer_text of the ask and adhoc workers, from the   *)
(* stdout of an agent that wrote nothing to stderr                         *)
answer_of(t, stdout) ==
  CASE t.target = "prompt_dry_worker" ->
         IF normalize_think_output(stdout) = << >>
         THEN << "N", "o", " ", "o", "p", "t", "i", "m", "i", "z", "e", "d", " ", "p", "r", "o", "m", "p", "t", " ", "w", "a", "s", " ", "p", "r", "o", "d", "u", "c", "e", "d", "." >>
         ELSE truncated(normalize_think_output(stdout))
    [] t.target = "adhoc_coder_worker" ->
         IF strip(stdout) = << >>
         THEN << "D", "o", "e", "r", " ", "c", "o", "m", "p", "l", "e", "t", "e", "d", " ", "a", "d", "h", "o", "c", " ", "r", "e", "q", "u", "e", "s", "t", " ", "w", "i", "t", "h", "o", "u", "t", " ", "o", "u", "t", "p", "u", "t", "." >>
         ELSE truncated(strip(stdout))
    [] OTHER ->
         IF strip(stdout) = << >>
         THEN << "A", "g", "e", "n", "t", " " >> \o t.args[1] \o << " ", "c", "o", "m", "p", "l", "e", "t", "e", "d", " ", "w", "i", "t", "h", "o", "u", "t", " ", "o", "u", "t", "p", "u", "t", "." >>
         ELSE truncated(strip(stdout))

Step(w, next, done, carried) ==
  pool' = [ pool EXCEPT ![w] = [ @ EXCEPT !.pc = next, !.did = Append(@, done),
                                          !.text = carried ] ]

(* subprocess.run(cmd) of the agent returns                                *)
(* the step of a thread whose agent returned                               *)
Returned(w, next, done, carried, stdout) ==
  pool' = [ pool EXCEPT ![w] = [ @ EXCEPT !.pc = next, !.did = Append(@, done),
                                          !.text = carried, !.output = stdout ] ]

AgentReturns(w, stdout) ==
  /\ w \in 1..Len(pool)
  /\ pool[w].pc \in { "started", "planning" }
  /\ IF pool[w].target = "planner_worker" \/ pool[w].pc = "planning"
     THEN \E payload \in { extract_json_payload(strip(stdout)) } :
            IF payload = None
            THEN Returned(w, "done", "agent", << >>, stdout)
            ELSE Returned(w, "add_tasks", "agent", payload, stdout)
     ELSE IF pool[w].target = "think_worker"
     THEN IF normalize_think_output(stdout) = << >>
          THEN Returned(w, "done", "think", << >>, stdout)
          ELSE Returned(w, "planning", "think", normalize_think_output(stdout), stdout)
     ELSE Returned(w, "deliver", "agent", answer_of(pool[w], stdout), stdout)
  /\ UNCHANGED << oldvars, kvars, uvars, ask, owner_msgs, owner_reply, pending_log, vmem, serving >>

(* what think_worker reads from a finished agent: result.stdout, or        *)
(* stdout, "\n" and stderr joined and stripped when stdout is empty         *)
think_reads(stdout, stderr) ==
  IF stdout # << >> THEN stdout ELSE strip(stdout \o << "\n" >> \o stderr)

(* the agent of think_worker exits with a non-zero return code: the code   *)
(* does not read result.returncode                                         *)
ThinkAgentFails(w, stdout, stderr) ==
  /\ w \in 1..Len(pool)
  /\ pool[w].pc = "started"
  /\ pool[w].target = "think_worker"
  /\ \E optimized \in { normalize_think_output(think_reads(stdout, stderr)) } :
       IF optimized = << >>
       THEN Returned(w, "done", "think nonzero", << >>, stdout)
       ELSE Returned(w, "planning", "think nonzero", optimized, stdout)
  /\ UNCHANGED << oldvars, kvars, uvars, ask, owner_msgs, owner_reply, pending_log, vmem, serving >>

(* subprocess.TimeoutExpired, where the call has a timeout and catches it  *)
AgentTimesOut(w) ==
  /\ w \in 1..Len(pool)
  /\ pool[w].pc = "started"
  /\ pool[w].target \in { "think_worker", "prompt_dry_worker", "adhoc_coder_worker" }
  /\ CASE pool[w].target = "think_worker" -> Step(w, "done", "timeout", << >>)
       [] pool[w].target = "prompt_dry_worker" ->
            Step(w, "deliver", "timeout", << "/", "t", "h", "i", "n", "k", "d", "r", "y", " ", "t", "i", "m", "e", "d", " ", "o", "u", "t", " ", "a", "f", "t", "e", "r", " ", "2", "4", "0", "s", "." >>)
       [] OTHER ->
            Step(w, "deliver", "timeout", << "A", "d", "h", "o", "c", " ", "d", "o", "e", "r", " ", "r", "u", "n", " ", "t", "i", "m", "e", "d", " ", "o", "u", "t", " ", "a", "f", "t", "e", "r", " ", "1", "2", "0", "0", "s", "." >>)
  /\ UNCHANGED << oldvars, kvars, uvars, ask, owner_msgs, owner_reply, pending_log, vmem, serving >>

(* an exception nothing in the worker catches (the command cannot be run): *)
(* the thread ends, serve_forever goes on; served: the requests answered   *)
(* by then                                                                 *)
uncaught_exits(running) == FALSE

uncaught(running) == running

WorkerRaises(w) ==
  /\ w \in 1..Len(pool)
  /\ pool[w].pc \in { "started", "planning", "add_tasks", "manager" }
  /\ pool' = [ pool EXCEPT ![w] = [ @ EXCEPT !.pc = "failed", !.did = Append(@, "raised"),
                                          !.served = << http.n, Len(pending_log) >> ] ]
  /\ serving' = uncaught(serving)
  /\ UNCHANGED << oldvars, kvars, uvars, ask, owner_msgs, owner_reply, pending_log, vmem >>

(* add-tasks-to-db.sh run with the payload on stdin                        *)
AddTasks(w, returncode) ==
  /\ w \in 1..Len(pool)
  /\ pool[w].pc = "add_tasks"
  /\ IF returncode # 0
     THEN Step(w, "done", "add_tasks failed", pool[w].text)
     ELSE Step(w, "manager", "add_tasks", pool[w].text)
  /\ UNCHANGED << oldvars, kvars, uvars, ask, owner_msgs, owner_reply, pending_log, vmem, serving >>

(* subprocess.Popen(tm_cmd)                                                *)
StartManager(w) ==
  /\ w \in 1..Len(pool)
  /\ pool[w].pc = "manager"
  /\ Step(w, "done", "manager", pool[w].text)
  /\ UNCHANGED << oldvars, kvars, uvars, ask, owner_msgs, owner_reply, pending_log, vmem, serving >>

missing_unstripped(agent, asked, response) ==
  agent = << >> \/ asked = << >> \/ response = << >>

missing_fields(agent, asked, response) ==
  strip(agent) = << >> \/ strip(asked) = << >> \/ strip(response) = << >>

(* send_owner_message: what it returns, whether it ran the notify script,  *)
(* and the entry it recorded. how: the script is unavailable, its run      *)
(* times out, exits non-zero, or exits 0                                   *)
send_owner_message(agent, asked, response, how, time) ==
  LET failed(message, ran) ==
        [ ok |-> FALSE, message |-> message, ran |-> ran, record |-> << >> ]
  IN  IF missing_fields(agent, asked, response)
        THEN failed("Missing required fields: agent, question, response", FALSE)
      ELSE IF how = "unavailable"
        THEN failed("Telegram notify script is unavailable", FALSE)
      ELSE IF how = "timeout"
        THEN failed("Timed out while sending owner message", TRUE)
      ELSE IF how = "nonzero"
        THEN failed("Failed to send owner message", TRUE)
      ELSE [ ok |-> TRUE, message |-> "Owner message sent", ran |-> TRUE,
             record |-> << [ role |-> "ashley",
                             text |-> Truncate(Truncate([ word |-> strip(response),
                                                          len |-> Len(strip(response)) ],
                                                        RESPONSE_MAX), TEXT_MAX),
                             time |-> time ] >> ]

(* what a call of send_owner_message leaves behind                         *)
Sent(agent, asked, response, how, res) ==
  /\ owner_msgs' = IF res.ran
                   THEN Append(owner_msgs, [ agent |-> strip(agent), question |-> strip(asked),
                                             response |-> strip(response), how |-> how ])
                   ELSE owner_msgs
  /\ IF res.record # << >>
     THEN /\ conv_file' = save_conversation_buffer(Append(conv_file, res.record[1]))
          /\ appended' = Append(appended, res.record[1])
          /\ conv_calls' = conv_calls + 1
          /\ vmem' = store(vmem, res.record[1])
     ELSE UNCHANGED << conv_file, appended, conv_calls, vmem >>

Hows == { "unavailable", "timeout", "nonzero", "ok" }

(* the last statement of the prompt-dry, adhoc and ask workers             *)
Deliver(w, how) ==
  /\ w \in 1..Len(pool)
  /\ pool[w].pc = "deliver"
  /\ \E res \in { send_owner_message(agent_of(pool[w]), question_of(pool[w]),
                                     pool[w].text, how, conv_calls + 1) } :
       /\ Sent(agent_of(pool[w]), question_of(pool[w]), pool[w].text, how, res)
       /\ Step(w, "done", IF res.ok THEN "delivered" ELSE "not delivered", pool[w].text)
  /\ UNCHANGED << conv, conv_left, overlapped, http, rvars, tvars, pvars, cronvars,
                  jvars, kvars, uvars, ask, owner_reply, pending_log, serving >>

(* POST /owner-message: a field the body lacks is ""                       *)
OwnerMessage(f, how) ==
  /\ serving
  /\ owner_reply.n < MaxRequests
  /\ \E res \in { send_owner_message(f.agent, f.question, f.response, how,
                                     conv_calls + 1) } :
       /\ Sent(f.agent, f.question, f.response, how, res)
       /\ owner_reply' = [ n |-> owner_reply.n + 1, fields |-> f, how |-> how,
                           status |-> IF res.ok THEN 200 ELSE 400,
                           ok |-> res.ok, reply |-> res.message,
                           sent |-> Len(owner_msgs), recorded |-> Len(appended) ]
  /\ UNCHANGED << conv, conv_left, overlapped, http, rvars, tvars, pvars, cronvars,
                  jvars, kvars, uvars, ask, pool, pending_log, serving >>

(* GET /pending while workers run                                          *)
WorkPending ==
  /\ serving
  /\ Len(pending_log) < MaxPendings
  /\ GetPending
  /\ pending_log' = Append(pending_log, lastList'.ids)
  /\ UNCHANGED << now, solution, notified, followups, confirmations, nreplies,
                  last_reply, tvars, pvars, cronvars, jvars, cvars, http, kvars,
                  uvars, ask, pool, owner_msgs, owner_reply, vmem, serving >>

OwnerFields ==
  { [ agent |-> a, question |-> q, response |-> r ] :
      a \in { << "c", "o", "d", "e", "r" >>, << >> }, q \in { << "w", "h", "y", "?" >>, << " ", " " >> }, r \in { << "o", "k" >>, << " ", "\n" >> } }

AgentOutputs == { << " ", "\n" >>, << "\"", "d", "o", " ", "x", "\"" >>, << "x", "{", "a", "}", "y", " " >>, << "}", "{" >> }

(* stdout and stderr of an agent that exited with a non-zero code          *)
FailedRuns ==
  { << << >>, << >> >>, << << >>, << "r", "a", "t", "e", " ", "l", "i", "m", "i", "t", "\n" >> >>,
    << << "\"", "d", "o", " ", "x", "\"" >>, << "w", "a", "r", "n" >> >> }

WorkTexts ==
  { << "/", "p", "l", "a", "n", " ", "f", "i", "x" >>, << "/", "t", "h", "i", "n", "k", " ", "f", "i", "x" >>, << "/", "p", "r", "o", "m", "p", "t", " ", "f", "i", "x" >>, << "/", "t", "h", "i", "n", "k", "d", "r", "y", " ", "f", "i", "x" >>, << "/", "a", "d", "h", "o", "c", " ", "f", "i", "x" >>,
    << "/", "a", "s", "k", " ", "C", "o", "d", "e", "r", " ", "w", "h", "y" >>, << "f", "i", "x", " ", "i", "t" >> }

WorkBodies ==
  { [ json |-> TRUE, shape |-> "object", text_type |-> "string", text |-> t ] :
      t \in WorkTexts }

WorkInit ==
  /\ RouterInit
  /\ PollerIdle
  /\ TELEGRAM_ALLOW_FROM = {}
  /\ offset_file = 0
  /\ initial_offset = 0
  /\ CronIdle
  /\ JobsIdle
  /\ ConvIdle
  /\ http = [ NoRequest EXCEPT !.gs = "loaded" ]
  /\ ThinkIdle
  /\ TasksIdle
  /\ AskIdle
  /\ pool = << >>
  /\ owner_msgs = << >>
  /\ owner_reply = [ n |-> 0 ]
  /\ pending_log = << >>
  /\ \E up \in BOOLEAN : vmem = [ up |-> up, rows |-> << >> ]
  /\ serving = TRUE

WorkerStep(w) ==
  \/ AgentTimesOut(w)
  \/ \E returncode \in { 0, 1 } : AddTasks(w, returncode)
  \/ StartManager(w)
  \/ \E how \in Hows : Deliver(w, how)

WorkNext ==
  \/ \E b \in WorkBodies, io \in { "ok", "write_fails" } : Post(b, io)
  \/ WorkPending
  \/ \E w \in 1..MaxRequests :
       \/ \E stdout \in AgentOutputs : AgentReturns(w, stdout)
       \/ \E failed \in FailedRuns : ThinkAgentFails(w, failed[1], failed[2])
       \/ WorkerRaises(w)
       \/ WorkerStep(w)

WorkSpec == WorkInit /\ [][WorkNext]_vars

(* POST /owner-message on its own                                          *)
OwnerNext ==
  \E f \in OwnerFields, how \in Hows : OwnerMessage(f, how)

OwnerSpec == WorkInit /\ [][OwnerNext]_vars

(* a thread that can take a step of its own takes it; nothing makes the    *)
(* agent subprocess return                                                 *)
WorkFairSpec == WorkSpec /\ \A w \in 1..MaxRequests : WF_vars(WorkerStep(w))


(* --------- handle_owner_reply and the task the question names ---------- *)
(* _sql_escape: text.replace("'", "''")                                    *)
sql_escape(text) == sql_quote(text)

(* the text of the block: an f-string of the id, the selected row's        *)
(* question and the reply                                                  *)
owner_answer_block(qid, asked, a) ==
  << "\n", "\n", "-", "-", "-", " ", "O", "w", "n", "e", "r", " ", "A", "n", "s", "w", "e", "r", " ", "(", "Q", "#" >> \o str(qid) \o << ")", " ", "-", "-", "-", "\n", "Q", ":", " " >> \o asked
    \o << "\n", "A", ":", " " >> \o a

(* the same UPDATE without its WHERE clause *)
append_to_every_task(ts, task_id, qid, asked, a) ==
  [ k \in DOMAIN ts |->
      [ ts[k] EXCEPT !.solution =
          (IF @ = None THEN << >> ELSE @)
            \o sql_literal(sql_escape(owner_answer_block(qid, asked, a))) ] ]

(* if task_id: UPDATE autonomous_tasks SET solution = COALESCE(solution,   *)
(* '') || '<escaped block>' WHERE id = task_id                             *)
append_owner_answer(ts, task_id, qid, asked, a) ==
  IF task_id = 0 THEN ts
  ELSE [ k \in DOMAIN ts |->
           IF k = task_id
           THEN [ ts[k] EXCEPT !.solution =
                    (IF @ = None THEN << >> ELSE @)
                      \o sql_literal(sql_escape(owner_answer_block(qid, asked, a))) ]
           ELSE ts[k] ]

(* the requests and replies of this part: questions with and without a     *)
(* task, for a task that exists and one that does not, texts with quotes   *)
LinkedAsks ==
  { [ agent |-> "coder", task_id |-> t, question |-> << "i", "t", "'", "s", " ", "w", "h", "e", "r", "e", "?" >> ] :
      t \in { 0, 1, 2, 3 } }
  \cup { [ agent |-> "planner", task_id |-> 2, question |-> << "w", "h", "i", "c", "h", " ", "p", "o", "r", "t", "?" >> ] }

LinkedAnswers == { << "8", "0", "8", "0" >>, << "d", "o", "n", "'", "t" >> }

LinkedTasks == { BlockedTask(None), OtherTask("IN_PROGRESS") }

(* ask_owner_question with a valid agent and question text                 *)
LinkedAsk(req) ==
  /\ Len(questions) < MaxQuestions
  /\ now < MaxTime
  /\ questions' = create_pending_question(
                    expire_old_questions(questions, now),
                    req.agent, req.task_id, req.question, now)
  /\ notified' = notified \cup { Len(questions) + 1 }
  /\ now' = now + 1
  /\ UNCHANGED << solution, followups, confirmations, nreplies, lastList,
                  last_reply, tvars, pvars, xvars >>

(* POST /reply: handle_owner_reply with the table of tasks                 *)
LinkedReply(a) ==
  /\ nreplies < MaxRequests
  /\ handle_owner_reply(a)
  /\ tasks' = IF last_reply'.kind = "recorded"
              THEN append_owner_answer(tasks,
                     questions[last_reply'.qid].task_id, last_reply'.qid,
                     questions[last_reply'.qid].question, a)
              ELSE tasks
  /\ UNCHANGED << now, notified, lastList, tvars, pvars, cronvars, jvars,
                  cvars, http, kvars, blocked_reasons, last_command, ask,
                  wvars >>

LinkedInit ==
  /\ OldIdle
  /\ ThinkIdle
  /\ AskIdle
  /\ WorkIdle
  /\ tasks \in [ 1..2 -> LinkedTasks ]
  /\ blocked_reasons =
       { [ task_id |-> k, reason |-> tasks[k].blocked_reason ] :
           k \in { i \in 1..2 : tasks[i].status = "BLOCKED" } }
  /\ last_command = [ n |-> 0 ]

LinkedNext ==
  \/ Tick
  \/ \E req \in LinkedAsks : LinkedAsk(req)
  \/ \E a \in LinkedAnswers : LinkedReply(a)

LinkedSpec == LinkedInit /\ [][LinkedNext]_vars


(* =============================== claims ================================ *)
(* what the claims speak of, stated without the operations above           *)
FirstCreated(S) == CHOOSE i \in S : \A j \in S : i <= j

FreshPending(qs, t) ==
  { i \in 1..Len(qs) : qs[i].status = "pending" /\ ~ OlderThanTTL(qs[i], t) }

DispatchesOf(q) == { f \in followups : f.qid = q }
ConfirmationsOf(q) == { c \in confirmations : c.qid = q }

(* C1: with pending questions created in the order Q1, Q2, Q3, none older  *)
(* than 60 minutes, one owner reply A moves exactly the first created one  *)
(* to answered with answer A and leaves every other row as it was.         *)
C1_QuestionFIFO ==
  [][ ( /\ nreplies' = nreplies + 1
        /\ \E i \in 1..Len(questions) : questions[i].status = "pending"
        /\ \A i \in 1..Len(questions) :
             questions[i].status = "pending" => ~ OlderThanTTL(questions[i], now) )
      => LET q1 == FirstCreated({ i \in 1..Len(questions) :
                                    questions[i].status = "pending" })
         IN /\ questions'[q1].status = "answered"
            /\ questions'[q1].answer \in Answers
            /\ confirmations' \ confirmations =
                 { [ by |-> 0, qid |-> q1, answer |-> questions'[q1].answer ] }
            /\ last_reply' = [ kind |-> "recorded", qid |-> q1 ]
            /\ \A j \in 1..Len(questions) :
                 j # q1 => questions'[j] = questions[j] ]_vars

C1_Witness ==
  /\ Len(questions) = 3
  /\ nreplies = 1
  /\ questions[1].status = "answered"
  /\ questions[1].answer = "8080"
  /\ questions[2].status = "pending"
  /\ questions[3].status = "pending"

(* C2: under concurrent replies each question gets at most one follow-up   *)
(* dispatch and at most one 'Answer recorded' confirmation.                *)
C2_RepliesSerialized ==
  \A q \in 1..Len(questions) :
    /\ Cardinality(DispatchesOf(q)) <= 1
    /\ Cardinality(ConfirmationsOf(q)) <= 1

(* C3: a question that is answered or expired never changes status again,  *)
(* and a status is one of pending, answered, expired.                      *)
C3_StatusMonotone ==
  [][ \A i \in 1..Len(questions) :
        /\ questions[i].status \in { "pending", "answered", "expired" }
        /\ questions[i].status # "pending"
             => /\ i <= Len(questions')
                /\ questions'[i].status = questions[i].status ]_vars

C3_Witness ==
  /\ \E i \in 1..Len(questions) : questions[i].status = "answered"
  /\ \E i \in 1..Len(questions) : questions[i].status = "expired"
  /\ \E t \in Threads :
       pc[t] = "finish" /\ questions[question[t].id].status = "expired"

(* C4: a list operation never reports a question created more than 60      *)
(* minutes ago as pending: it expires that question itself.                *)
C4_ListExpiresStale ==
  /\ \A k \in 1..Len(lastList.ids) : lastList.ids[k] \notin lastList.stale
  /\ \A i \in lastList.stale : questions[i].status = "expired"

C4_Witness == lastList.stale # {}

(* C5: the follow-up of an answered question goes to the agent that asked  *)
(* it, planner questions through the plan pipeline.                        *)
C5_FollowUpToAsker ==
  \A f \in followups :
    /\ f.worker.agent = questions[f.qid].agent
    /\ questions[f.qid].agent = "planner" => f.worker.pipeline = "plan"

(* an update the claims call unauthorized / a plain message                *)
Unlisted(u) ==
  IF TELEGRAM_ALLOW_FROM = {}
  THEN u.chat # "100"
  ELSE u.sender \notin TELEGRAM_ALLOW_FROM

PlainText(u) ==
  /\ u.text # << >>
  /\ u.text[1] \notin local_commands
  /\ u.text[1] \notin SlashTokens

LargestOf(S) == CHOOSE x \in S : \A y \in S : y <= x

DeliveriesOf(k) == { n \in 1..Len(deliveries) : deliveries[n].id = k }

C7_OffsetMonotone ==
  /\ [](offset_file = IF processed = {} THEN initial_offset
                      ELSE IF LargestOf(processed) + 1 > initial_offset
                           THEN LargestOf(processed) + 1
                           ELSE initial_offset)
  /\ [][offset_file' >= offset_file]_vars

C7_Witness ==
  /\ ppc = "idle"
  /\ nticks = 2
  /\ Cardinality(processed) = 2
  /\ offset_file = 3

(* C8: an update whose handler raised is behind the persisted offset when  *)
(* the tick ends, so the next tick does not fetch it again.                *)
C8_ErrorIsolated ==
  ppc = "idle" => \A k \in raised : offset_file > k

(* C9: no update is delivered downstream more than once.                   *)
C9_AtMostOnce ==
  \A k \in 1..Len(inbox) : Cardinality(DeliveriesOf(k)) <= 1

(* C10: an unauthorized update reaches no handler: nothing is delivered,   *)
(* downloaded or sent for it; the offset alone moves past it.              *)
C10_UnauthorizedSkipped ==
  \A k \in 1..Len(inbox) :
    Unlisted(inbox[k])
      => /\ DeliveriesOf(k) = {}
         /\ \A m \in sent : m.id # k
         /\ k \notin raised
         /\ k \in processed => offset_file > k

C10_Witness ==
  \E k \in processed :
    /\ Unlisted(inbox[k])
    /\ offset_file = k + 1
    /\ TELEGRAM_ALLOW_FROM # {}

(* what the claim calls a 5-field expression over digits, *, comma, / and - *)
WellFormedCron(fields) ==
  /\ Len(fields) = 5
  /\ \A i \in 1..5 : \A k \in 1..Len(fields[i]) :
       fields[i][k] \in { "0", "1", "2", "3", "4", "5", "6", "7", "8", "9",
                          "*", ",", "/", "-" }

(* the claim's rule for one field: a leading star-slash becomes 0-slash    *)
Stepped(f) ==
  IF Len(f) >= 2 /\ f[1] = "*" /\ f[2] = "/" THEN << "0" >> \o Tail(f) ELSE f

DateTimeOf(fields) ==
  << "*", "-" >> \o Stepped(fields[4]) \o << "-" >> \o Stepped(fields[3])
    \o << " " >> \o Stepped(fields[2]) \o << ":" >> \o Stepped(fields[1])
    \o << ":", "0", "0" >>

(* C14 as stated: every field of the form star-slash-k, the day-of-week    *)
(* field included, becomes 0-slash-k; a star stays a star; a star          *)
(* day-of-week gives no prefix, any other is prefixed; anything that is    *)
(* not a well-formed 5-field expression yields None.                       *)
C14_EveryStepFieldRewritten ==
  cron_out # NotRun =>
    IF WellFormedCron(cron_fields)
    THEN cron_out =
           (IF cron_fields[5] = << "*" >> THEN << >>
            ELSE Stepped(cron_fields[5]) \o << " " >>) \o DateTimeOf(cron_fields)
    ELSE cron_out = None

(* C14 amended: the minute, hour, day-of-month and month fields are         *)
(* rewritten as the claim says; the day-of-week field, when it is not a    *)
(* star, is prefixed exactly as typed (star-slash-k stays star-slash-k).   *)
C14_CronTranslation ==
  cron_out # NotRun =>
    IF WellFormedCron(cron_fields)
    THEN cron_out =
           (IF cron_fields[5] = << "*" >> THEN << >>
            ELSE cron_fields[5] \o << " " >>) \o DateTimeOf(cron_fields)
    ELSE cron_out = None

C14_Witness ==
  /\ cron_out \notin { NotRun, None }
  /\ cron_fields[1] = << "*", "/", "5" >>
  /\ cron_fields[5] = << "*", "/", "5" >>
  /\ cron_fields[2] = << "*" >>
  /\ cron_expr # join(<< " " >>, cron_fields)

(* the cron fields of a /schedule request and what the claims call invalid *)
TypedCron(text) == SubSeq(split(text), 1, 5)

IsNumber(f) ==
  /\ f # << >>
  /\ \A k \in 1..Len(f) :
       f[k] \in { "0", "1", "2", "3", "4", "5", "6", "7", "8", "9" }

RECURSIVE NumberOf(_)
NumberOf(f) ==
  IF f = << >> THEN 0
  ELSE 10 * NumberOf(SubSeq(f, 1, Len(f) - 1))
         + (CHOOSE d \in 0..9 : HexDigits[d + 1] = f[Len(f)])

(* minute, hour, day of month, month, day of week                          *)
FieldMin == << 0, 0, 1, 1, 0 >>
FieldMax == << 59, 23, 31, 12, 7 >>

InvalidCron(fields) ==
  \/ ~ WellFormedCron(fields)
  \/ \E i \in 1..5 :
       /\ IsNumber(fields[i])
       /\ \/ NumberOf(fields[i]) < FieldMin[i]
          \/ NumberOf(fields[i]) > FieldMax[i]

(* C11: a /schedule request with five cron tokens and a description whose  *)
(* cron expression is invalid (bad characters, or a number out of range    *)
(* such as hour 25) writes no file, enables no timer, and its reply is     *)
(* 'Invalid cron expression.'.                                             *)
C11_InvalidCronRejected ==
  [][ \A t \in JobThreads :
        ( /\ sched'[t] # sched[t]
          /\ Len(split(sched'[t].text)) >= 6
          /\ InvalidCron(TypedCron(sched'[t].text)) )
        => /\ timer_dir' = timer_dir
           /\ enabled' = enabled
           /\ writes' = writes
           /\ sched'[t].pc = "done" => sched'[t].reply = "invalid" ]_vars

(* C12: when schedule_job returns 'Scheduled job created' the four files   *)
(* of the new unit exist and /jobs lists the job with the cron string as   *)
(* typed; when delete_job is called with the id of a listed job, none of   *)
(* that job's four files remains, its timer is disabled and /jobs does not *)
(* list it.                                                                *)
(* (a listed job: one schedule_job created and whose timer is enabled)     *)
C12_JobLifecycle ==
  [][ /\ \A t \in JobThreads :
           ( sched[t].reply # "created" /\ sched'[t].reply = "created" )
           => /\ JobFiles(<< "a", "s", "h", "l", "e", "y", "-", "j", "o", "b", "-" >> \o sched'[t].job_id) \subseteq timer_dir'
              /\ \E e \in list_jobs(metas') :
                   /\ e.job_id = sched'[t].job_id
                   /\ split(e.cron) = TypedCron(sched'[t].text)
      /\ last_delete'.n # last_delete.n
           => \A u \in DOMAIN metas :
                ( /\ metas[u].ok
                  /\ metas[u].job_id = last_delete'.arg
                  /\ u \in enabled )
                => /\ JobFiles(u) \cap timer_dir' = {}
                   /\ u \notin enabled'
                   /\ \A e \in list_jobs(metas') :
                        e.job_id # last_delete'.arg ]_vars

(* C13: when delete_job("all") returns, the timer directory holds no file  *)
(* with the job prefix.                                                    *)
C13_DeleteAllEmpties ==
  [][ ( /\ last_delete'.n # last_delete.n
        /\ last_delete'.arg = << "a", "l", "l" >> )
      => timer_dir' = {} ]_vars

(* C15: two schedule_job calls with the same description get different job *)
(* ids, and no file is written by both.                                    *)
C15_DistinctJobs ==
  \A t, u \in JobThreads :
    ( /\ t # u
      /\ sched[t].job_id # << >>
      /\ sched[u].job_id # << >>
      /\ sched[t].task_description = sched[u].task_description )
    => /\ sched[t].job_id # sched[u].job_id
       /\ \A w1, w2 \in writes :
            ( w1.by = t /\ w2.by = u ) => w1.file # w2.file

(* the last n entries of a list                                            *)
LastOf(seq, n) ==
  IF Len(seq) <= n THEN seq ELSE SubSeq(seq, Len(seq) - n + 1, Len(seq))

(* C16: as long as record_conversation calls never overlap, the persisted  *)
(* buffer has at most 20 entries, and after more than 20 appends it is     *)
(* exactly the last 20 entries appended, in append order.                  *)
C16_RingBound ==
  ~ overlapped =>
    /\ Len(conv_file) <= 20
    /\ Len(appended) > 20 => conv_file = LastOf(appended, 20)

C16_Witness ==
  /\ ~ overlapped
  /\ Len(appended) = 22
  /\ \A t \in ConvThreads : conv[t].pc = "idle"
  /\ \E i \in 1..Len(conv_file) : conv_file[i].role = "ashley"
  /\ \E i \in 1..Len(conv_file) : conv_file[i].text.len = 500

(* C17: once no record_conversation call is running, every entry appended  *)
(* (of the last 20) is in the persisted buffer: no append is lost, also    *)
(* when two calls ran at once.                                             *)
C17_NoLostAppend ==
  ( \A t \in ConvThreads : conv[t].pc = "idle" ) =>
    \A k \in 1..Len(LastOf(appended, 20)) :
      \E i \in 1..Len(conv_file) : conv_file[i] = LastOf(appended, 20)[k]

(* what the contract of POST /route calls a command and a usage string     *)
ArgCommands ==
  { << "/", "p", "l", "a", "n" >>, << "/", "p", "r", "o", "m", "p", "t" >>, << "/", "t", "h", "i", "n", "k", "d", "r", "y" >>, << "/", "t", "h", "i", "n", "k" >>, << "/", "l", "e", "s", "s", "o", "n" >>, << "/", "p", "r", "o", "j", "e", "c", "t" >>,
    << "/", "a", "d", "h", "o", "c" >>, << "/", "a", "s", "k" >>, << "/", "s", "c", "h", "e", "d", "u", "l", "e" >>, << "/", "d", "e", "l", "e", "t", "e", "j", "o", "b" >>, << "/", "a", "n", "s", "w", "e", "r" >>, << "/", "e", "m", "a", "i", "l" >>,
    << "/", "s", "e", "n", "d", "e", "m", "a", "i", "l" >>, << "/", "e", "v", "e", "n", "t" >>, << "/", "d", "e", "l", "e", "v", "e", "n", "t" >>, << "/", "s", "e", "a", "r", "c", "h" >>, << "/", "n", "o", "t", "e" >>, << "/", "s", "a", "v", "e" >>,
    << "/", "r", "e", "m", "e", "m", "b", "e", "r" >>, << "/", "r", "e", "c", "a", "l", "l" >>, << "/", "f", "o", "r", "g", "e", "t" >> }

KnownCommands ==
  ArgCommands \cup
  { << "/", "j", "o", "b", "s" >>, << "/", "p", "e", "n", "d", "i", "n", "g" >>, << "/", "e", "m", "a", "i", "l", "s" >>, << "/", "c", "a", "l", "e", "n", "d", "a", "r" >>, << "/", "u", "n", "r", "e", "a", "d" >>, << "/", "w", "e", "a", "t", "h", "e", "r" >>,
    << "/", "n", "o", "t", "e", "s" >>, << "/", "l", "i", "n", "k", "s" >>, << "/", "b", "r", "i", "e", "f", "i", "n", "g" >>, << "/", "w", "e", "e", "k", "l", "y", "r", "e", "v", "i", "e", "w" >>, << "/", "m", "e", "m", "o", "r", "i", "e", "s" >> }

UsageStrings ==
  { "Usage: /plan <request>", "Usage: /prompt <request>", "Usage: /think <request>",
    "Usage: /lesson <lesson learned>",
    "Usage: /project <project>|<note> (or /project <note> when a recent project exists)",
    "Usage: /adhoc <one-off instruction>", "Usage: /ask <question>",
    "Usage: /ask <question> or /ask <agent> <question>",
    "Usage: /schedule <cron> <task description>",
    "Usage: /deletejob <job_id>  or  /deletejob all",
    "Usage: /answer <your response to the agent's question>",
    "Usage: /email <message_id>", "Usage: /sendemail to@email.com | subject | body text",
    "Usage: /event <start_time> | <title> [| description] [| location]",
    "Usage: /delevent <event_id>", "Usage: /search <query>",
    "Usage: /note <your note text>", "Usage: /save <url> [tag1 tag2 ...]",
    "Usage: /remember <fact or preference to store>",
    "Usage: /recall <what to search for>", "Usage: /forget <memory_id>" }

UnknownCommand(text) ==
  /\ startswith(strip(text), << "/" >>)
  /\ \A c \in KnownCommands : ~ startswith(lower(strip(text)), c)

EmptyArgument(text) == lower(strip(text)) \in ArgCommands

ClassificationError(text) == UnknownCommand(text) \/ EmptyArgument(text)

PostedText == http.body.json /\ http.body.shape = "object" /\ http.body.text_type = "string"

(* C18: POST /route answers 200 with a {"reply"} body for every request    *)
(* whose body parses as JSON (whatever its shape, whatever the type of its *)
(* text, whether or not the handler fails), and 400 exactly when the body  *)
(* is not JSON.                                                            *)
C18_AlwaysAnswers ==
  http.n > 0 => http.status = (IF http.body.json THEN 200 ELSE 400)

(* C19: a text that starts with "/" and matches no known command, and a    *)
(* known command given with an empty argument, both get a usage reply and  *)
(* start no background worker.                                             *)
C19_ClassificationErrorsGetUsage ==
  (http.n > 0 /\ PostedText /\ http.gs = "loaded" /\ ClassificationError(http.body.text))
    => /\ http.status = 200
       /\ http.result.reply.head \in UsageStrings
       /\ http.result.workers = << >>

(* C20: route_text(text) and route_text("  " + text + "  ") select the     *)
(* same handler with the same argument and return the same acknowledgement,*)
(* and one call starts at most one background agent worker.                *)
C20_PaddingInsensitive ==
  [][ (http'.n = http.n + 1 /\ http'.body.json /\ http'.body.shape = "object"
         /\ http'.body.text_type = "string" /\ http'.status = 200)
      => \A answered \in { http' } :
           \A padded \in { route_text(Pad(answered.body.text), conv_file, conv_calls + 1,
                                       answered.gs) } :
             /\ ~ padded.raises
             /\ padded.handler = answered.result.handler
             /\ padded.arg = answered.result.arg
             /\ padded.reply = answered.result.reply
             /\ padded.workers = answered.result.workers
             /\ Len(answered.result.workers) <= 1 ]_vars

C20_Witness ==
  /\ http.n > 0
  /\ PostedText
  /\ http.status = 200
  /\ http.body.text = << "/", "p", "l", "a", "n", " ", "f", "i", "x" >>
  /\ http.result.handler = "spawn_planner"
  /\ http.result.arg = << "f", "i", "x" >>
  /\ Len(http.result.workers) = 1

(* the tiers in increasing order of effort                                 *)
TierRank(tier) ==
  CASE tier = "minimal" -> 1
    [] tier = "low" -> 2
    [] tier = "medium" -> 3
    [] tier = "high" -> 4
    [] OTHER -> 0

(* C26: thinking_from_temp gives 'minimal' up to 0.15, 'low' above 0.15 up *)
(* to 0.35, 'medium' above 0.35 up to 0.60 and 'high' above 0.60, so a     *)
(* higher temperature never gets a lower tier.                             *)
C26_TierOfTemperature ==
  /\ \A i \in 1..2 :
       tiers[i] # "" =>
         /\ tiers[i] = "minimal" <=> temps[i] <= 15
         /\ tiers[i] = "low" <=> (15 < temps[i] /\ temps[i] <= 35)
         /\ tiers[i] = "medium" <=> (35 < temps[i] /\ temps[i] <= 60)
         /\ tiers[i] = "high" <=> 60 < temps[i]
  /\ ( tiers[1] # "" /\ tiers[2] # "" /\ temps[1] <= temps[2] )
       => TierRank(tiers[1]) <= TierRank(tiers[2])

C26_Witness ==
  /\ temps = << 15, 16 >>
  /\ tiers = << "minimal", "low" >>


(* C27: in every reachable state of the pending_questions table a row has  *)
(* an answered_at exactly when its status is answered; an expired row has  *)
(* none.                                                                   *)
C27_AnsweredAtIffAnswered ==
  \A i \in 1..Len(questions) :
    /\ questions[i].answered_at # NULL <=> questions[i].status = "answered"
    /\ questions[i].status = "expired" => questions[i].answered_at = NULL

C27_Witness ==
  /\ \E i \in 1..Len(questions) :
       /\ questions[i].status = "answered"
       /\ questions[i].answered_at # NULL
       /\ now - questions[i].created_at > QUESTION_EXPIRY_MINUTES
  /\ \E i \in 1..Len(questions) :
       questions[i].status = "expired" /\ questions[i].answered_at = NULL


(* the task id a command names, or 0 when it names none (/unblock all)     *)
NamedTask(text) ==
  IF isdigit(split(strip(text))[2]) THEN int(split(strip(text))[2]) ELSE 0

ReasonsOf(brs, id) == { r \in brs : r.task_id = id }

(* C28: /unblock <id> and /retry <id> change a task only when it is        *)
(* BLOCKED: it gets the target status, its blocked_reason, error_log,      *)
(* assigned_agent, pid and started_at are cleared, its attempt_count is    *)
(* reset, its solution is set only when a note was given, and its          *)
(* blocked_reasons rows are deleted. A task that is missing or not BLOCKED *)
(* is left as it was and the reply says it was not updated; the reply says *)
(* 'set to' exactly when a row changed. No other task and no other task's  *)
(* blocked_reasons rows change.                                            *)
C28_UnblockOnlyBlocked ==
  [][ ( last_command'.n # last_command.n /\ NamedTask(last_command'.text) # 0 )
      => \A cmd \in { last_command' } :
         \A id \in { NamedTask(cmd.text) } :
         \A typed \in { parse_unblock_args(from(split(strip(cmd.text)), 2)) } :
           /\ \A i \in DOMAIN tasks : i # id => tasks'[i] = tasks[i]
           /\ \A i \in DOMAIN tasks :
                i # id => ReasonsOf(blocked_reasons', i) = ReasonsOf(blocked_reasons, i)
           /\ IF id \in DOMAIN tasks /\ tasks[id].status = "BLOCKED" /\ cmd.db = "ok"
              THEN /\ tasks'[id].status = typed.status
                   /\ tasks'[id].blocked_reason = None
                   /\ tasks'[id].error_log = None
                   /\ tasks'[id].assigned_agent = None
                   /\ tasks'[id].pid = NULL
                   /\ tasks'[id].started_at = NULL
                   /\ tasks'[id].attempt_count = 0
                   /\ tasks'[id].solution =
                        (IF typed.solution = << >> THEN tasks[id].solution
                         ELSE typed.solution)
                   /\ ReasonsOf(blocked_reasons', id) = {}
                   /\ cmd.reply.kind =
                        (IF typed.solution = << >> THEN "Task N set to S."
                         ELSE "Task N set to S with solution.")
                   /\ cmd.reply.task_id = id
                   /\ cmd.reply.status = typed.status
              ELSE /\ tasks' = tasks
                   /\ blocked_reasons' = blocked_reasons
                   /\ cmd.reply.kind = "Task N not updated (not blocked or not found)."
                   /\ cmd.reply.task_id = id ]_vars

C28_Witness ==
  /\ last_command.n = 2
  /\ last_command.text = << "/", "r", "e", "t", "r", "y", " ", "2", " ", "R", "e", "a", "d", "y", " ", "F", "o", "r", " ", " ", "T", "e", "s", "t", "i", "n", "g", " ", "s", "e", "e", " ", "l", "o", "g" >>
  /\ last_command.tasks[2].status = "BLOCKED"
  /\ last_command.tasks[1].status = "IN_PROGRESS"
  /\ last_command.tasks[1].pid = NULL
  /\ tasks[2].status = "READY_FOR_TESTING"
  /\ tasks[2].solution = << "s", "e", "e", " ", "l", "o", "g" >>
  /\ tasks[2].pid = NULL
  /\ tasks[1] = last_command.tasks[1]
  /\ blocked_reasons = {}
  /\ Cardinality(last_command.blocked_reasons) = 2


(* a call the claim speaks of: a known agent and a question with text      *)
ValidAsk == ask.agent \in ASK_AGENT_NAMES /\ strip(ask.question) # << >>

IsPrefix(s, t) == Len(s) <= Len(t) /\ SubSeq(t, 1, Len(s)) = s

(* C30: ask_owner_question with an agent among planner, coder, tester and  *)
(* a question with text expires the stale questions, inserts exactly one   *)
(* pending row, then sends the notification with that row's id; no         *)
(* notification is sent before the insert or when the insert failed; a     *)
(* call with an unknown agent or an empty question inserts nothing and     *)
(* sends nothing.                                                          *)
C30_AskStepsInOrder ==
  ask.pc # "idle" =>
    /\ \/ IsPrefix(ask.did, << "expire", "insert", "notify" >>)
       \/ IsPrefix(ask.did, << "expire", "insert failed" >>)
    /\ \A q \in notified : q \in 1..Len(questions)
    /\ ( ask.pc = "done" /\ ValidAsk ) =>
         \/ /\ ask.did = << "expire", "insert", "notify" >>
            /\ Len(questions) = ask.before + 1
            /\ ask.qid = Len(questions)
            /\ questions[ask.qid].agent = ask.agent
            /\ ask.qid \in notified
         \/ /\ ask.did = << "expire", "insert failed" >>
            /\ Len(questions) = ask.before
            /\ ~ ask.result.ok
    /\ ( ask.pc = "done" /\ ~ ValidAsk ) =>
         /\ ask.did = << >>
         /\ Len(questions) = ask.before
         /\ ~ ask.result.ok


(* a text the claims call neither a command nor a status or weather query  *)
PlainRequest(text) ==
  /\ strip(text) # << >>
  /\ ~ startswith(strip(text), << "/" >>)
  /\ ~ contains(lower(strip(text)), << "w", "e", "a", "t", "h", "e", "r" >>)
  /\ ~ should_handle_status(lower(strip(text)))

(* C21: a text that is not a command and has no status or weather keyword  *)
(* appends exactly one 'user' entry to the conversation buffer, stores one *)
(* 'conversation' row in vector memory, starts exactly one planner worker  *)
(* and is answered with a reply that begins 'Queued for planner:'.         *)
C21_FallthroughQueues ==
  [][ ( http'.n = http.n + 1 /\ http'.body.json /\ http'.body.shape = "object"
          /\ http'.body.text_type = "string" /\ PlainRequest(http'.body.text) )
      => /\ Len(appended') = Len(appended) + 1
         /\ appended'[Len(appended')].role = "user"
         /\ appended'[Len(appended')].text.word = strip(http'.body.text)
         /\ conv_file' # << >>
         /\ conv_file'[Len(conv_file')] = appended'[Len(appended')]
         /\ Len(vmem'.rows) = Len(vmem.rows) + 1
         /\ vmem'.rows[Len(vmem'.rows)].category = "conversation"
         /\ Len(pool') = Len(pool) + 1
         /\ pool'[Len(pool')].target = "planner_worker"
         /\ http'.status = 200
         /\ http'.result.reply.head = "Queued for planner: " ]_vars


(* empty after trimming: nothing but white space                           *)
Blank(s) == \A k \in 1..Len(s) : s[k] \in WS

(* C22: send_owner_message with an agent, a question or a response that is *)
(* empty after trimming returns (False, "Missing required fields: agent,   *)
(* question, response"), does not run the notify script and records        *)
(* nothing in the conversation buffer.                                     *)
C22_MissingFieldsRejected ==
  [][ ( /\ owner_reply'.n # owner_reply.n
        /\ \/ Blank(owner_reply'.fields.agent)
           \/ Blank(owner_reply'.fields.question)
           \/ Blank(owner_reply'.fields.response) )
      => /\ ~ owner_reply'.ok
         /\ owner_reply'.reply = "Missing required fields: agent, question, response"
         /\ owner_msgs' = owner_msgs
         /\ conv_file' = conv_file
         /\ appended' = appended
         /\ vmem' = vmem ]_vars

C22_Witness ==
  /\ owner_reply.n = 2
  /\ owner_reply.fields.agent # << >>
  /\ owner_reply.fields.question = << " ", " " >>
  /\ owner_reply.how = "ok"
  /\ ~ owner_reply.ok
  /\ Len(owner_msgs) = 1
  /\ owner_msgs[1].how = "ok"
  /\ Len(conv_file) = 1


(* an owner-facing worker that runs, and one whose answer reached the owner *)
Running(w) == w \in 1..Len(pool) /\ pool[w].target \in OwnerFacing

Delivered(w) ==
  /\ w \in 1..Len(pool)
  /\ pool[w].pc = "done"
  /\ \E k \in 1..Len(owner_msgs) :
       /\ owner_msgs[k].how = "ok"
       /\ owner_msgs[k].response = strip(pool[w].text)

(* C23: every owner-facing worker (ask, adhoc, prompt-dry) eventually      *)
(* finishes and delivers an answer to the owner; when the agent subprocess *)
(* does not finish within the timeout, the answer delivered is a 'timed    *)
(* out after Ns' text.                                                     *)
C23_WorkersDeliver ==
  /\ \A w \in 1..MaxRequests : Running(w) ~> Delivered(w)
  /\ [](\A w \in 1..MaxRequests :
          ( Running(w) /\ pool[w].did # << >> /\ pool[w].did[1] = "timeout" )
            => contains(pool[w].text, << " ", "t", "i", "m", "e", "d", " ", "o", "u", "t", " ", "a", "f", "t", "e", "r", " " >>))


Failed == { w \in 1..Len(pool) : pool[w].pc = "failed" }

AgentCommand(text) ==
  \E c \in { << "/", "p", "l", "a", "n" >>, << "/", "t", "h", "i", "n", "k" >>, << "/", "p", "r", "o", "m", "p", "t" >>, << "/", "t", "h", "i", "n", "k", "d", "r", "y" >>, << "/", "a", "d", "h", "o", "c" >>, << "/", "a", "s", "k" >> } :
    /\ startswith(lower(strip(text)), c)
    /\ strip(SubSeq(strip(text), Len(c) + 1, Len(strip(text)))) # << >>

(* C25: for /plan, /think, /prompt, /thinkdry, /adhoc and /ask with an     *)
(* argument route_text answers right after starting the worker thread: at  *)
(* the moment of the response the thread exists and its agent subprocess   *)
(* has not returned.                                                       *)
C25_ReplyDoesNotWait ==
  [][ ( http'.n = http.n + 1 /\ http'.body.json /\ http'.body.shape = "object"
          /\ http'.body.text_type = "string" /\ AgentCommand(http'.body.text) )
      => /\ http'.status = 200
         /\ Len(pool') = Len(pool) + 1
         /\ pool'[Len(pool')].pc = "started"
         /\ pool'[Len(pool')].did = << >>
         /\ \A w \in 1..Len(pool) : pool'[w] = pool[w] ]_vars

C25_Witness ==
  /\ http.n = 1
  /\ http.status = 200
  /\ http.body.text = << "/", "a", "d", "h", "o", "c", " ", "f", "i", "x" >>
  /\ Len(pool) = 1
  /\ pool[1].target = "adhoc_coder_worker"
  /\ pool[1].pc = "started"
  /\ Len(pending_log) = 1

(* an output with a "{" and, somewhere after it, a "}"                     *)
HasObject(output) ==
  \E i, j \in 1..Len(output) : i < j /\ output[i] = "{" /\ output[j] = "}"

FirstToLast(output) ==
  SubSeq(output,
         CHOOSE i \in 1..Len(output) :
           output[i] = "{" /\ \A k \in 1..(i - 1) : output[k] # "{",
         CHOOSE j \in 1..Len(output) :
           output[j] = "}" /\ \A k \in (j + 1)..Len(output) : output[k] # "}")

Ran(w, what) == \E k \in 1..Len(pool[w].did) : pool[w].did[k] = what

(* C29: in one run of the plan pipeline the add-tasks script is invoked    *)
(* only after the agent subprocess returned and only when its output has a *)
(* "{" followed later by a "}", with the text from the first "{" through   *)
(* the last "}" as payload; the task manager is started only after         *)
(* add-tasks exited with code 0.                                           *)
C29_PlanPipelineGated ==
  \A w \in 1..Len(pool) :
    /\ ( pool[w].pc = "add_tasks" \/ Ran(w, "add_tasks") \/ Ran(w, "add_tasks failed") )
         => /\ Ran(w, "agent")
            /\ HasObject(pool[w].output)
            /\ pool[w].text = FirstToLast(pool[w].output)
    /\ \A k \in 1..Len(pool[w].did) :
         /\ pool[w].did[k] \in { "add_tasks", "add_tasks failed" }
              => k > 1 /\ pool[w].did[k - 1] = "agent"
         /\ pool[w].did[k] = "manager"
              => k > 1 /\ pool[w].did[k - 1] = "add_tasks"
    /\ pool[w].pc = "manager" => pool[w].did[Len(pool[w].did)] = "add_tasks"

C29_Witness ==
  /\ Len(pool) = 2
  /\ pool[1].target = "think_worker"
  /\ pool[1].did = << "think", "agent", "add_tasks", "manager" >>
  /\ pool[1].output = << "x", "{", "a", "}", "y", " " >>
  /\ pool[1].text = << "{", "a", "}" >>
  /\ pool[2].target = "planner_worker"
  /\ pool[2].did = << "agent" >>
  /\ pool[2].output = << "}", "{" >>
  /\ pool[2].pc = "done"


(* C31: when the UPDATE of answer_pending_question changed no row (the     *)
(* selected row does not hold this request's answer when the request       *)
(* finishes), handle_owner_reply returns no 'Answer recorded' confirmation *)
(* and starts no follow-up worker.                                         *)
NotWritten(t) ==
  ~ ( /\ questions[question[t].id].status = "answered"
      /\ questions[question[t].id].answer = answer_text[t] )

C31_FailedWriteReported ==
  [][ \A t \in Threads :
        ( pc[t] = "finish" /\ pc'[t] = "done" /\ NotWritten(t) )
        => ( confirmations' = confirmations /\ followups' = followups ) ]_vars

(* C32: an owner reply handled while no question is pending returns 'No    *)
(* pending questions to answer.', leaves every question row and every task *)
(* row as it was and starts no follow-up worker.                           *)
C32_NoPendingNoChange ==
  [][ ( nreplies' = nreplies + 1 /\ PendingIds(questions) = {} )
      => /\ last_reply' = NoPending
         /\ questions' = questions
         /\ solution' = solution
         /\ followups' = followups
         /\ confirmations' = confirmations ]_vars

C32_Witness ==
  /\ nreplies = 2
  /\ last_reply = NoPending
  /\ Len(questions) = 2
  /\ questions[1].status = "answered"
  /\ questions[2].status = "expired"
  /\ Cardinality(followups) = 1

(* C33: a reply never answers a stale question.  Every question that is    *)
(* pending and older than 60 minutes when the reply is handled is expired   *)
(* by that request and not answered by it, and the question the reply is   *)
(* recorded for is the oldest pending question not older than 60 minutes.  *)
WithinTTL(qs, t) == { i \in PendingIds(qs) : ~ OlderThanTTL(qs[i], t) }

C33_ReplySkipsStale ==
  [][ nreplies' = nreplies + 1
      => /\ \A i \in PendingIds(questions) :
              OlderThanTTL(questions[i], now)
                => questions'[i].status = "expired"
         /\ \A i \in Ids(questions) :
              ( questions'[i].status = "answered"
                /\ questions[i].status # "answered" )
                => /\ i \in WithinTTL(questions, now)
                   /\ \A j \in WithinTTL(questions, now) :
                        questions[i].created_at <= questions[j].created_at
                   /\ last_reply' = Recorded(i)
         /\ WithinTTL(questions, now) # {}
              => \E i \in WithinTTL(questions, now) :
                   questions'[i].status = "answered" ]_vars

C33_Witness ==
  /\ nreplies = 1
  /\ Len(questions) = 2
  /\ questions[1].created_at = 0
  /\ questions[1].status = "expired"
  /\ questions[2].status = "answered"
  /\ questions[2].answered_at > 60
  /\ last_reply = Recorded(2)
  /\ lastList.ids = << >>

(* C34: answering a question changes the task table only by appending.     *)
(* When the answered question has a task_id, that task's solution becomes  *)
(* its previous content followed by the '--- Owner Answer (Q#id) ---'      *)
(* block with the question and the answer, and no other field and no other *)
(* task changes; when it has none the table is unchanged; no request of    *)
(* the router changes a task's status.                                     *)
Previous(row) == IF row.solution = None THEN << >> ELSE row.solution

BlockText(qid, asked, a) ==
  << "\n", "\n" >> \o << "-", "-", "-", " ", "O", "w", "n", "e", "r", " ", "A", "n", "s", "w", "e", "r", " ", "(", "Q", "#" >> \o << HexDigits[qid + 1] >>
    \o << ")", " ", "-", "-", "-" >> \o << "\n", "Q", ":", " " >> \o asked
    \o << "\n", "A", ":", " " >> \o a

Answered(i) == questions'[i].status = "answered" /\ questions[i].status = "pending"

C34_AnswerOnlyAppends ==
  [][ /\ \A k \in DOMAIN tasks : tasks'[k].status = tasks[k].status
      /\ nreplies' = nreplies + 1
           => /\ \A i \in Ids(questions), k \in DOMAIN tasks :
                   ( Answered(i) /\ questions[i].task_id = k )
                     => tasks'[k] =
                          [ tasks[k] EXCEPT !.solution =
                              Previous(tasks[k])
                                \o BlockText(i, questions[i].question,
                                             questions'[i].answer) ]
              /\ \A k \in DOMAIN tasks :
                   ( \A i \in Ids(questions) :
                       Answered(i) => questions[i].task_id # k )
                     => tasks'[k] = tasks[k]
      /\ nreplies' = nreplies => tasks' = tasks ]_vars

C34_Witness ==
  /\ Len(questions) = 2
  /\ questions[1].task_id = 2
  /\ questions[1].status = "answered"
  /\ questions[2].task_id = 0
  /\ questions[2].status = "answered"
  /\ nreplies = 2
  /\ tasks[1] = BlockedTask(None)
  /\ tasks[2] = [ OtherTask("IN_PROGRESS") EXCEPT !.solution =
                    << "o", "l", "d", "\n", "\n", "-", "-", "-", " ", "O", "w", "n", "e", "r", " ", "A", "n", "s", "w", "e", "r", " ", "(", "Q", "#", "1", ")", " ", "-", "-", "-", "\n", "Q", ":", " ", "i", "t", "'", "s", " ", "w", "h", "e", "r", "e", "?", "\n", "A", ":", " ", "d", "o", "n", "'", "t" >> ]

(* C35: delete_job with an argument other than 'all' removes at most one   *)
(* job, and only a job whose job_id equals the argument: every file it      *)
(* removes and every timer it disables belongs to the unit of that job id, *)
(* and the metadata of every other job is left as it was.                  *)
NamedUnit == SCHEDULED_JOBS_PREFIX \o last_delete'.arg

C35_DeleteOnlyNamed ==
  [][ ( /\ last_delete'.n # last_delete.n
        /\ lower(last_delete'.arg) # << "a", "l", "l" >> )
      => /\ timer_dir' \subseteq timer_dir
         /\ \A f \in timer_dir \ timer_dir' : f.unit = NamedUnit
         /\ enabled' \subseteq enabled
         /\ \A u \in enabled \ enabled' : u = NamedUnit
         /\ \A u \in DOMAIN metas :
              u # NamedUnit => ( u \in DOMAIN metas' /\ metas'[u] = metas[u] )
    ]_vars

(* C36: the think pipeline hands text to the plan pipeline only after a    *)
(* successful optimization pass.  A think_worker whose agent exited with a *)
(* non-zero code, timed out or produced no output has ended: no planner    *)
(* run, no add-tasks run and no task manager is started by it.             *)
ThinkFailed(w) ==
  /\ pool[w].target = "think_worker"
  /\ \/ Ran(w, "think nonzero")
     \/ Ran(w, "timeout")
     \/ ( pool[w].did = << "think" >>
          /\ \A k \in 1..Len(pool[w].output) : pool[w].output[k] \in WS )

C36_ThinkFailureStops ==
  \A w \in 1..Len(pool) :
    ThinkFailed(w)
      => /\ pool[w].pc \in { "done", "failed" }
         /\ Len(pool[w].did) = 1

(* C37: an authorized plain non-slash message is never dropped.  When the  *)
(* poller has handled it, the message was either recorded as the answer to *)
(* a question that was pending or forwarded to /route, whatever happened   *)
(* between its GET /pending and its POST /reply.                           *)
RecordedAsAnswer(u) ==
  \E q \in Ids(questions) :
    /\ questions[q].status = "pending"
    /\ questions'[q].status = "answered"
    /\ questions'[q].answer = u.text[1]

ForwardedToRoute(u) ==
  deliveries' = Append(deliveries, [ id |-> u.update_id, dest |-> "route" ])

C37_PlainNeverDropped ==
  [][ ( /\ ppc = "checked"
        /\ ~ Unlisted(cur)
        /\ PlainText(cur)
        /\ ppc' = "handled" )
      => ( RecordedAsAnswer(cur) \/ ForwardedToRoute(cur) ) ]_vars

(* C38: every question that is pending was announced to the owner.  When   *)
(* ask_owner_question has returned, every pending question is one the      *)
(* notify script sent, and a call that reports success ('Question #id sent *)
(* to owner') sent the notification for its question.                      *)
C38_PendingWasAnnounced ==
  ask.pc = "done" =>
    /\ \A q \in PendingIds(questions) : q \in notified
    /\ ask.result.ok => ask.qid \in notified

(* C39: the top-level ok field of the POST /ask-owner response is true     *)
(* only when a pending question was created; a request naming an agent     *)
(* outside planner, coder, tester, or one whose insert failed, gets        *)
(* ok = false.                                                             *)
Created ==
  /\ Len(questions) = ask.before + 1
  /\ questions[Len(questions)].question = strip(ask.question)

C39_OkOnlyWhenCreated ==
  ask.pc = "responded" =>
    /\ ask.response.ok => Created
    /\ ask.agent \notin ASK_AGENT_NAMES => ~ ask.response.ok
    /\ Len(questions) = ask.before => ~ ask.response.ok

TypeOK ==
  /\ now \in 0..MaxTime
  /\ nreplies >= 0
====
